---- MODULE Spec2Model ----
(***************************************************************************)
(* Bibliometric classification engine of google-scholar-analytics:         *)
(* registry construction, venue resolution, keyword fallback, domain       *)
(* aggregation, authorship roles and the h-index, as state machines.       *)
(*                                                                         *)
(* Python values are modelled as follows.  A str is a TLA+ string; the     *)
(* string operations the code uses (lower, strip, replace, split, in, the  *)
(* regular expressions) are operators over strings, computed character by  *)
(* character.  A dict is the sequence of its <<key, value>> pairs in       *)
(* insertion order.  A list is a sequence.  Where the code takes len() of, *)
(* iterates over and tests the truth of a value that is a list on one path *)
(* and a str on another (paper_domains), the str is held as the sequence   *)
(* of its one-character strings, which is what those three operations see. *)
(* A float score is held as an exact fraction <<num, den>> in lowest terms *)
(* in Spec, and as the binary64 value the interpreter computes in          *)
(* SpecOrder, where the rounding of the additions is what is looked at.    *)
(***************************************************************************)
EXTENDS Integers, Sequences, FiniteSets, TLC

VARIABLES
  pc,                      \* position of the analyzer: construction, idle, a loop
  dataset,                 \* scimago_journals.json as found on disk
  load_i,                  \* index of the next dataset entry to load
  journal_classifications, \* self.journal_classifications
  conferences,             \* self.conference_cache.conferences
  publications,            \* argument of the running analysis call
  pub_i,                   \* index of the next publication of the loop
  area_scores,             \* area_scores of _journal_based_classification
  area_papers,             \* area_papers of _journal_based_classification
  last_step,               \* what the last loop iteration did to area_scores
  results,                 \* values returned by the finished calls, oldest first
  profile_name,            \* profile_name of _analyze_authorship
  author_list,             \* author_list of the last iteration of its loop
  position,                \* position of the last iteration of its loop
  authorship_stats,        \* authorship_stats of _analyze_authorship
  citations,               \* citations of _calculate_h_index, sorted
  cite_i,                  \* index of the next entry of its loop
  h_index,                 \* h_index of _calculate_h_index
  redis_store,             \* the keys of the Redis server behind cache_manager, with their data
  cache_call,              \* the last finished call of a function of cache_manager
  alarm,                   \* the SIGALRM timer of the process
  areas_call               \* position of _classify_research_areas

vars == <<pc, dataset, load_i, journal_classifications, conferences,
          publications, pub_i, area_scores, area_papers, last_step, results,
          profile_name, author_list, position, authorship_stats,
          citations, cite_i, h_index,
          redis_store, cache_call, alarm, areas_call>>

None == "__NONE__"

service_vars == <<redis_store, cache_call, alarm, areas_call>>

\* no key is stored, no function of cache_manager was called, no timer is armed and
\* _classify_research_areas is not running
ServicesIdle ==
  /\ redis_store = {}
  /\ cache_call = [op |-> None]
  /\ alarm = "off"
  /\ areas_call = "idle"

-----------------------------------------------------------------------------
(* Python str operations *)

CharAt(s, i) == SubSeq(s, i, i)

Chars(s) == [i \in 1..Len(s) |-> CharAt(s, i)]

UpperChars == "ABCDEFGHIJKLMNOPQRSTUVWXYZ"

LowerChars == "abcdefghijklmnopqrstuvwxyz"

Digits == "0123456789"

IndexIn(c, alphabet) ==
  IF \E i \in 1..Len(alphabet) : CharAt(alphabet, i) = c
  THEN CHOOSE i \in 1..Len(alphabet) : CharAt(alphabet, i) = c
  ELSE 0

LowerChar(c) ==
  LET i == IndexIn(c, UpperChars) IN IF i = 0 THEN c ELSE CharAt(LowerChars, i)

\* ''.join(f[lo..hi]), by halves
RECURSIVE JoinRange(_, _, _)
JoinRange(f, lo, hi) ==
  IF lo > hi THEN ""
  ELSE IF lo = hi THEN f[lo]
  ELSE LET mid == (lo + hi) \div 2 IN JoinRange(f, lo, mid) \o JoinRange(f, mid + 1, hi)

Join(f) == JoinRange(f, 1, Len(f))

\* sum(f[lo..hi]), by halves
RECURSIVE SumRange(_, _, _)
SumRange(f, lo, hi) ==
  IF lo > hi THEN 0
  ELSE IF lo = hi THEN f[lo]
  ELSE LET mid == (lo + hi) \div 2 IN SumRange(f, lo, mid) + SumRange(f, mid + 1, hi)

Sum(f) == SumRange(f, 1, Len(f))

Lower(s) == IF s = "" THEN "" ELSE Join([i \in 1..Len(s) |-> LowerChar(CharAt(s, i))])

IsSpace(c) == c \in {" ", "\t", "\n", "\r"}

IsDigit(c) == IndexIn(c, Digits) # 0

\* \w of the re module on ASCII text
IsWordChar(c) == IndexIn(c, LowerChars) # 0 \/ IndexIn(c, UpperChars) # 0 \/ IsDigit(c) \/ c = "_"

\* the positions of s that hold no whitespace
Inked(s) == {i \in 1..Len(s) : ~IsSpace(CharAt(s, i))}

Min(S) == CHOOSE x \in S : \A y \in S : x <= y

Max(S) == CHOOSE x \in S : \A y \in S : x >= y

LStrip(s) == IF s = "" \/ Inked(s) = {} THEN "" ELSE SubSeq(s, Min(Inked(s)), Len(s))

RStrip(s) == IF s = "" \/ Inked(s) = {} THEN "" ELSE SubSeq(s, 1, Max(Inked(s)))

Strip(s) == IF s = "" THEN "" ELSE LStrip(RStrip(s))

\* s.rstrip(c)
RStripChar(s, c) ==
  LET keep == {i \in 1..Len(s) : CharAt(s, i) # c} IN
  IF keep = {} THEN "" ELSE SubSeq(s, 1, Max(keep))

StartsWithAt(s, i, t) == i + Len(t) - 1 <= Len(s) /\ SubSeq(s, i, i + Len(t) - 1) = t

\* t in s
Contains(s, t) == \E i \in 1..(Len(s) - Len(t) + 1) : StartsWithAt(s, i, t)

\* s.find(t) + 1, 0 when absent
Find(s, t) ==
  IF Contains(s, t)
  THEN CHOOSE i \in 1..(Len(s) - Len(t) + 1) :
         StartsWithAt(s, i, t) /\ \A j \in 1..(i - 1) : ~StartsWithAt(s, j, t)
  ELSE 0

\* s.replace(old, new), old non-empty
RECURSIVE Replace(_, _, _)
Replace(s, old, new) ==
  LET i == Find(s, old) IN
  IF s = "" \/ i = 0 THEN s
  ELSE SubSeq(s, 1, i - 1) \o new \o Replace(SubSeq(s, i + Len(old), Len(s)), old, new)

\* s.split(c) for a one-character separator
RECURSIVE SplitChar(_, _)
SplitChar(s, c) ==
  LET i == Find(s, c) IN
  IF i = 0 THEN <<s>>
  ELSE <<SubSeq(s, 1, i - 1)>> \o SplitChar(SubSeq(s, i + 1, Len(s)), c)

\* re.sub(r'\s+', ' ', s)
CollapseSpaces(s) ==
  IF s = "" THEN "" ELSE
  Join([i \in 1..Len(s) |->
          IF ~IsSpace(CharAt(s, i)) THEN CharAt(s, i)
          ELSE IF i > 1 /\ IsSpace(CharAt(s, i - 1)) THEN "" ELSE " "])

\* the positions of s where a maximal run of non-whitespace starts
WordStarts(s) ==
  {i \in 1..Len(s) : ~IsSpace(CharAt(s, i)) /\ (i = 1 \/ IsSpace(CharAt(s, i - 1)))}

\* the last position of the run of non-whitespace that holds position i
WordEnd(s, i) == Min({j \in i..Len(s) : j = Len(s) \/ IsSpace(CharAt(s, j + 1))})

\* len(s.split())
WordCount(s) == Cardinality(WordStarts(s))

\* set(s.split()): the maximal runs of non-whitespace
Words(s) == IF s = "" THEN {} ELSE {SubSeq(s, i, WordEnd(s, i)) : i \in WordStarts(s)}

\* \b before position i of s (between s[i-1] and s[i]), 1 <= i <= Len(s) + 1
Boundary(s, i) ==
  LET before == i > 1 /\ IsWordChar(CharAt(s, i - 1))
      after  == i <= Len(s) /\ IsWordChar(CharAt(s, i))
  IN before # after

\* re.search(r'\b' + re.escape(w) + r'\b', s)
WordSearch(s, w) ==
  \E i \in 1..(Len(s) - Len(w) + 1) :
    StartsWithAt(s, i, w) /\ Boundary(s, i) /\ Boundary(s, i + Len(w))

Range(f) == {f[i] : i \in DOMAIN f}

\* any(t in s for t in terms)
AnyIn(terms, s) == \E i \in DOMAIN terms : Contains(s, terms[i])

-----------------------------------------------------------------------------
(* Python dict operations: a dict is the sequence of its <<key, value>> pairs *)

Keys(d) == {d[i][1] : i \in DOMAIN d}

HasKey(d, k) == \E i \in DOMAIN d : d[i][1] = k

Get(d, k) == d[CHOOSE i \in DOMAIN d : d[i][1] = k][2]

\* d[k] = v
Put(d, k, v) ==
  IF HasKey(d, k)
  THEN LET i == CHOOSE j \in DOMAIN d : d[j][1] = k
       IN SubSeq(d, 1, i - 1) \o <<<<k, v>>>> \o SubSeq(d, i + 1, Len(d))
  ELSE Append(d, <<k, v>>)

-----------------------------------------------------------------------------
(* Tables of the source *)

\* lines 382-418
critical_journals ==
  <<
    <<"ieee transactions on pattern analysis and machine intelligence", "Computer Science and AI">>,
    <<"ieee trans pattern anal mach intell", "Computer Science and AI">>,
    <<"ieee trans. pattern anal. mach. intell.", "Computer Science and AI">>,
    <<"tpami", "Computer Science and AI">>,
    <<"pattern analysis and machine intelligence", "Computer Science and AI">>,
    <<"journal of machine learning research", "Computer Science and AI">>,
    <<"jmlr", "Computer Science and AI">>,
    <<"machine learning", "Computer Science and AI">>,
    <<"neural networks", "Computer Science and AI">>,
    <<"artificial intelligence", "Computer Science and AI">>,
    <<"pattern recognition", "Computer Science and AI">>,
    <<"ieee transactions on image processing", "Computer Science and AI">>,
    <<"ieee transactions on neural networks and learning systems", "Computer Science and AI">>,
    <<"international journal of computer vision", "Computer Science and AI">>,
    <<"ijcv", "Computer Science and AI">>,
    <<"computer vision and image understanding", "Computer Science and AI">>,
    <<"journal of artificial intelligence research", "Computer Science and AI">>,
    <<"jair", "Computer Science and AI">>,
    <<"communications of the acm", "Computer Science and AI">>,
    <<"acm computing surveys", "Computer Science and AI">>,
    <<"ieee transactions on computers", "Computer Science and AI">>,
    <<"ieee transactions on software engineering", "Computer Science and AI">>,
    <<"acm transactions on graphics", "Computer Science and AI">>,
    <<"ieee computer", "Computer Science and AI">>,
    <<"journal of the american statistical association", "Statistics and Probability">>,
    <<"jasa", "Statistics and Probability">>,
    <<"biometrika", "Statistics and Probability">>,
    <<"annals of statistics", "Statistics and Probability">>,
    <<"journal of the royal statistical society", "Statistics and Probability">>,
    <<"statistical science", "Statistics and Probability">>
  >>

\* lines 722-870
fallback_journals ==
  <<
    <<"journal of the american statistical association", "Statistics & Probability">>,
    <<"biometrika", "Statistics & Probability">>,
    <<"annals of statistics", "Statistics & Probability">>,
    <<"journal of the royal statistical society", "Statistics & Probability">>,
    <<"statistical science", "Statistics & Probability">>,
    <<"biostatistics", "Statistics & Probability">>,
    <<"statistics in medicine", "Statistics & Probability">>,
    <<"electronic journal of statistics", "Statistics & Probability">>,
    <<"electronic journal of probability", "Statistics & Probability">>,
    <<"electronic communications in probability", "Statistics & Probability">>,
    <<"electronic journal of differential equations", "Mathematics">>,
    <<"journal of differential equations", "Mathematics">>,
    <<"nonlinear analysis", "Mathematics">>,
    <<"advances in mathematics", "Mathematics">>,
    <<"journal of mathematical analysis and applications", "Mathematics">>,
    <<"proceedings of the american mathematical society", "Mathematics">>,
    <<"transactions of the american mathematical society", "Mathematics">>,
    <<"communications in mathematical physics", "Mathematics">>,
    <<"journal of functional analysis", "Mathematics">>,
    <<"calculus of variations and partial differential equations", "Mathematics">>,
    <<"journal of statistical planning and inference", "Statistics & Probability">>,
    <<"computational statistics and data analysis", "Statistics & Probability">>,
    <<"statistics and computing", "Statistics & Probability">>,
    <<"journal of computational and graphical statistics", "Statistics & Probability">>,
    <<"canadian journal of statistics", "Statistics & Probability">>,
    <<"scandinavian journal of statistics", "Statistics & Probability">>,
    <<"journal of multivariate analysis", "Statistics & Probability">>,
    <<"journal of nonparametric statistics", "Statistics & Probability">>,
    <<"journal of time series analysis", "Statistics & Probability">>,
    <<"bernoulli", "Statistics & Probability">>,
    <<"probability theory and related fields", "Statistics & Probability">>,
    <<"stochastic processes and their applications", "Statistics & Probability">>,
    <<"bayesian analysis", "Statistics & Probability">>,
    <<"spatial statistics", "Statistics & Probability">>,
    <<"econometrics and statistics", "Statistics & Probability">>,
    <<"chemometrics and intelligent laboratory systems", "Statistics & Probability">>,
    <<"journal of statistical software", "Statistics & Probability">>,
    <<"annals of applied statistics", "Statistics & Probability">>,
    <<"journal of business and economic statistics", "Statistics & Probability">>,
    <<"statistical methods in medical research", "Statistics & Probability">>,
    <<"journal of the royal statistical society series b", "Statistics & Probability">>,
    <<"journal of the royal statistical society series c", "Statistics & Probability">>,
    <<"test", "Statistics & Probability">>,
    <<"computational statistics", "Statistics & Probability">>,
    <<"journal of machine learning research", "Machine Learning & AI">>,
    <<"machine learning", "Machine Learning & AI">>,
    <<"neural networks", "Machine Learning & AI">>,
    <<"artificial intelligence", "Machine Learning & AI">>,
    <<"pattern recognition", "Machine Learning & AI">>,
    <<"bioinformatics", "Bioinformatics & Genomics">>,
    <<"nature genetics", "Bioinformatics & Genomics">>,
    <<"genome research", "Bioinformatics & Genomics">>,
    <<"genome biology", "Bioinformatics & Genomics">>,
    <<"nucleic acids research", "Bioinformatics & Genomics">>,
    <<"plos computational biology", "Bioinformatics & Genomics">>,
    <<"bmc bioinformatics", "Bioinformatics & Genomics">>,
    <<"nature biotechnology", "Bioinformatics & Genomics">>,
    <<"ecology", "Environmental & Ecological">>,
    <<"journal of ecology", "Environmental & Ecological">>,
    <<"conservation biology", "Environmental & Ecological">>,
    <<"ecological applications", "Environmental & Ecological">>,
    <<"global change biology", "Environmental & Ecological">>,
    <<"environmental science & technology", "Environmental & Ecological">>,
    <<"american economic review", "Economics & Finance">>,
    <<"journal of political economy", "Economics & Finance">>,
    <<"quarterly journal of economics", "Economics & Finance">>,
    <<"econometrica", "Economics & Finance">>,
    <<"journal of finance", "Economics & Finance">>,
    <<"review of financial studies", "Economics & Finance">>,
    <<"psychological science", "Social & Behavioral Sciences">>,
    <<"journal of personality and social psychology", "Social & Behavioral Sciences">>,
    <<"american journal of sociology", "Social & Behavioral Sciences">>,
    <<"social forces", "Social & Behavioral Sciences">>,
    <<"new england journal of medicine", "Biomedical & Health Sciences">>,
    <<"lancet", "Biomedical & Health Sciences">>,
    <<"jama", "Biomedical & Health Sciences">>,
    <<"nature medicine", "Biomedical & Health Sciences">>,
    <<"cell", "Biomedical & Health Sciences">>,
    <<"science", "Biomedical & Health Sciences">>,
    <<"communications of the acm", "Computer Science & Engineering">>,
    <<"ieee transactions on computers", "Computer Science & Engineering">>,
    <<"ieee transactions on software engineering", "Computer Science & Engineering">>,
    <<"acm computing surveys", "Computer Science & Engineering">>,
    <<"ieee transactions on pattern analysis and machine intelligence", "Machine Learning & AI">>,
    <<"ieee trans pattern anal mach intell", "Machine Learning & AI">>,
    <<"ieee trans. pattern anal. mach. intell.", "Machine Learning & AI">>,
    <<"tpami", "Machine Learning & AI">>,
    <<"pattern analysis and machine intelligence", "Machine Learning & AI">>,
    <<"ieee transactions on image processing", "Machine Learning & AI">>,
    <<"ieee transactions on neural networks and learning systems", "Machine Learning & AI">>,
    <<"ieee transactions on evolutionary computation", "Machine Learning & AI">>,
    <<"ieee transactions on cybernetics", "Machine Learning & AI">>,
    <<"ieee transactions on automation science and engineering", "Computer Science & Engineering">>,
    <<"ieee transactions on robotics", "Computer Science & Engineering">>,
    <<"ieee transactions on systems man and cybernetics", "Computer Science & Engineering">>,
    <<"ieee computer graphics and applications", "Machine Learning & AI">>,
    <<"ieee transactions on visualization and computer graphics", "Machine Learning & AI">>,
    <<"ieee transactions on multimedia", "Computer Science & Engineering">>,
    <<"ieee transactions on knowledge and data engineering", "Computer Science & Engineering">>,
    <<"ieee transactions on parallel and distributed systems", "Computer Science & Engineering">>,
    <<"ieee transactions on mobile computing", "Computer Science & Engineering">>,
    <<"journal of artificial intelligence research", "Machine Learning & AI">>,
    <<"jair", "Machine Learning & AI">>,
    <<"international journal of computer vision", "Machine Learning & AI">>,
    <<"ijcv", "Machine Learning & AI">>,
    <<"computer vision and image understanding", "Machine Learning & AI">>,
    <<"cviu", "Machine Learning & AI">>,
    <<"ieee computer", "Computer Science & Engineering">>,
    <<"acm transactions on graphics", "Computer Science & Engineering">>,
    <<"acm transactions on computer systems", "Computer Science & Engineering">>,
    <<"acm transactions on programming languages and systems", "Computer Science & Engineering">>,
    <<"journal of physical activity and health", "Biomedical & Health Sciences">>,
    <<"jmir research protocols", "Biomedical & Health Sciences">>,
    <<"preventive medicine", "Biomedical & Health Sciences">>,
    <<"american journal of preventive medicine", "Biomedical & Health Sciences">>,
    <<"remote sensing", "Environmental & Ecological">>,
    <<"ieee transactions on geoscience and remote sensing", "Environmental & Ecological">>,
    <<"remote sensing of environment", "Environmental & Ecological">>,
    <<"arxiv", "Preprints & Working Papers">>,
    <<"biorxiv", "Preprints & Working Papers">>,
    <<"medrxiv", "Preprints & Working Papers">>,
    <<"ssrn", "Preprints & Working Papers">>
  >>

\* lines 33-91
keyword_domains ==
  <<
    <<"Statistics and Probability", <<"statistical", "statistics", "probability", "inference", "estimation", "hypothesis", "regression", "anova", "bayesian", "frequentist", "multivariate", "correlation", "variance", "distribution", "bootstrap", "monte carlo", "sampling", "likelihood", "significance", "p-value", "change-point", "change point", "high-dimensional", "dimensional", "homogeneity", "detection", "test", "testing", "linear models", "differential abundance", "compositional data", "linda", "asymptotic", "limit theorem", "martingale", "stochastic", "random process", "time series analysis", "statistical method", "statistical theory", "confidence interval", "hypothesis test", "nonparametric", "semiparametric", "wild bootstrap", "spectral theory">> >>,
    <<"Applied Mathematics", <<"mathematics", "mathematical", "theorem", "proof", "algebra", "geometry", "topology", "analysis", "differential equations", "partial differential", "ordinary differential", "calculus", "optimization", "numerical analysis", "linear algebra", "abstract algebra", "number theory", "combinatorics", "graph theory", "logic", "set theory", "measure theory", "functional analysis", "real analysis", "complex analysis", "harmonic analysis", "approximation theory", "discrete mathematics", "applied mathematics", "pure mathematics">> >>,
    <<"Computer Science and AI", <<"machine learning", "deep learning", "neural network", "artificial intelligence", "classification", "clustering", "supervised", "unsupervised", "reinforcement", "feature selection", "random forest", "svm", "support vector", "gradient", "algorithm", "training", "prediction", "tensorflow", "pytorch", "computer vision", "pattern recognition", "image processing", "image analysis", "object detection", "face recognition", "visual", "image classification", "software", "programming", "computer science">> >>,
    <<"Bioinformatics and Genetics", <<"bioinformatics", "genomics", "proteomics", "microbiome", "rna", "dna", "gene", "genome", "sequencing", "gene expression", "biological data", "molecular biology", "biomarker", "pathway", "transcriptome", "chromosome", "mutation", "variant", "snp", "genome-wide", "phylogenetic">> >>,
    <<"Environmental and Earth Sciences", <<"environmental", "ecology", "climate", "ecosystem", "biodiversity", "conservation", "sustainability", "pollution", "carbon", "species", "ecological", "habitat", "conservation", "earth sciences", "geology">> >>,
    <<"Economics and Finance", <<"econometrics", "economics", "financial markets", "economic growth", "gdp", "economic policy", "finance", "financial crisis", "stock market", "trading", "investment", "portfolio", "asset pricing", "monetary policy", "fiscal policy", "labor economics", "development economics", "international trade">> >>,
    <<"Social Sciences", <<"psychology", "sociology", "survey", "social", "behavioral", "demographic", "population", "policy", "human", "community", "survey", "education", "anthropology", "political science">> >>,
    <<"Medicine and Health Sciences", <<"medicine", "medical", "health", "clinical", "epidemiology", "public health", "biomedical", "therapeutic", "treatment">> >>
  >>

\* lines 352-378
special_venue_patterns ==
  <<
    <<"royal statistical society", <<"Statistics and Probability">>, "journal of the royal statistical society">>,
    <<"american statistical association", <<"Statistics and Probability">>, "journal of the american statistical association">>,
    <<"biometrika", <<"Statistics and Probability">>, "biometrika">>,
    <<"statistica sinica", <<"Statistics and Probability">>, "statistica sinica">>,
    <<"annals of statistics", <<"Statistics and Probability">>, "annals of statistics">>,
    <<"journal of econometrics", <<"Statistics and Probability">>, "journal of econometrics">>,
    <<"econometric theory", <<"Statistics and Probability">>, "econometric theory">>,
    <<"bernoulli", <<"Statistics and Probability">>, "bernoulli">>,
    <<"arxiv", <<"Preprints & Working Papers">>, "arxiv">>,
    <<"biorxiv", <<"Preprints & Working Papers">>, "biorxiv">>,
    <<"medrxiv", <<"Preprints & Working Papers">>, "medrxiv">>,
    <<"ssrn", <<"Preprints & Working Papers">>, "ssrn">>,
    <<"neurips", <<"Computer Science and AI">>, "neurips">>,
    <<"nips", <<"Computer Science and AI">>, "neurips">>,
    <<"icml", <<"Computer Science and AI">>, "icml">>,
    <<"iclr", <<"Computer Science and AI">>, "iclr">>,
    <<"cvpr", <<"Computer Science and AI">>, "cvpr">>,
    <<"iccv", <<"Computer Science and AI">>, "iccv">>,
    <<"ijcai", <<"Computer Science and AI">>, "ijcai">>,
    <<"aaai", <<"Computer Science and AI">>, "aaai">>
  >>

\* lines 173-183
stats_journals ==
  {"annals of statistics", "bernoulli", "biometrics", "biometrika", "biostatistics", "canadian journal of statistics", "computational statistics and data analysis", "electronic journal of statistics", "journal of computational and graphical statistics", "journal of multivariate analysis", "journal of nonparametric statistics", "journal of statistical planning and inference", "journal of the american statistical association", "journal of the royal statistical society", "journal of time series analysis", "scandinavian journal of statistics", "statistical methods in medical research", "statistical science", "statistics and computing", "statistics in medicine", "test"}

\* lines 192-192
genetics_journals ==
  {"genome biology", "genomics", "nature genetics", "plos genetics"}

\* lines 47-255
basic_conferences ==
  <<
    <<"cvpr", [name |-> "Computer Vision and Pattern Recognition", domain |-> "Computer Science and AI", rank |-> "A*", aliases |-> <<"computer vision and pattern recognition", "cvpr", "ieee conference on computer vision and pattern recognition">>]>>,
    <<"iccv", [name |-> "International Conference on Computer Vision", domain |-> "Computer Science and AI", rank |-> "A*", aliases |-> <<"iccv", "international conference on computer vision">>]>>,
    <<"eccv", [name |-> "European Conference on Computer Vision", domain |-> "Computer Science and AI", rank |-> "A*", aliases |-> <<"eccv", "european conference on computer vision">>]>>,
    <<"neurips", [name |-> "Conference on Neural Information Processing Systems", domain |-> "Computer Science and AI", rank |-> "A*", aliases |-> <<"neurips", "nips", "neural information processing systems", "advances in neural information processing systems", "conference on neural information processing systems">>]>>,
    <<"icml", [name |-> "International Conference on Machine Learning", domain |-> "Computer Science and AI", rank |-> "A*", aliases |-> <<"icml", "international conference on machine learning">>]>>,
    <<"iclr", [name |-> "International Conference on Learning Representations", domain |-> "Computer Science and AI", rank |-> "A*", aliases |-> <<"iclr", "international conference on learning representations">>]>>,
    <<"aaai", [name |-> "AAAI Conference on Artificial Intelligence", domain |-> "Computer Science and AI", rank |-> "A*", aliases |-> <<"aaai", "association for the advancement of artificial intelligence">>]>>,
    <<"ijcai", [name |-> "International Joint Conference on Artificial Intelligence", domain |-> "Computer Science and AI", rank |-> "A*", aliases |-> <<"ijcai", "international joint conference on artificial intelligence">>]>>,
    <<"acl", [name |-> "Annual Meeting of the Association for Computational Linguistics", domain |-> "Computer Science and AI", rank |-> "A*", aliases |-> <<"acl", "association for computational linguistics">>]>>,
    <<"emnlp", [name |-> "Conference on Empirical Methods in Natural Language Processing", domain |-> "Computer Science and AI", rank |-> "A", aliases |-> <<"emnlp", "empirical methods in natural language processing">>]>>,
    <<"naacl", [name |-> "North American Chapter of the Association for Computational Linguistics", domain |-> "Computer Science and AI", rank |-> "A", aliases |-> <<"naacl", "north american chapter of the association for computational linguistics">>]>>,
    <<"sigmod", [name |-> "ACM SIGMOD International Conference on Management of Data", domain |-> "Computer Science and AI", rank |-> "A*", aliases |-> <<"sigmod", "acm sigmod">>]>>,
    <<"vldb", [name |-> "Very Large Data Bases", domain |-> "Computer Science and AI", rank |-> "A*", aliases |-> <<"vldb", "very large data bases">>]>>,
    <<"icde", [name |-> "IEEE International Conference on Data Engineering", domain |-> "Computer Science and AI", rank |-> "A*", aliases |-> <<"icde", "ieee international conference on data engineering">>]>>,
    <<"sosp", [name |-> "ACM Symposium on Operating Systems Principles", domain |-> "Computer Science and AI", rank |-> "A*", aliases |-> <<"sosp", "symposium on operating systems principles">>]>>,
    <<"osdi", [name |-> "USENIX Symposium on Operating Systems Design and Implementation", domain |-> "Computer Science and AI", rank |-> "A*", aliases |-> <<"osdi", "operating systems design and implementation">>]>>,
    <<"nsdi", [name |-> "USENIX Symposium on Networked Systems Design and Implementation", domain |-> "Computer Science and AI", rank |-> "A*", aliases |-> <<"nsdi", "networked systems design and implementation">>]>>,
    <<"sigcomm", [name |-> "ACM SIGCOMM Conference", domain |-> "Computer Science and AI", rank |-> "A*", aliases |-> <<"sigcomm", "acm sigcomm">>]>>,
    <<"stoc", [name |-> "ACM Symposium on Theory of Computing", domain |-> "Computer Science and AI", rank |-> "A*", aliases |-> <<"stoc", "symposium on theory of computing">>]>>,
    <<"focs", [name |-> "IEEE Symposium on Foundations of Computer Science", domain |-> "Computer Science and AI", rank |-> "A*", aliases |-> <<"focs", "foundations of computer science">>]>>,
    <<"soda", [name |-> "ACM-SIAM Symposium on Discrete Algorithms", domain |-> "Computer Science and AI", rank |-> "A*", aliases |-> <<"soda", "symposium on discrete algorithms">>]>>,
    <<"siggraph", [name |-> "ACM SIGGRAPH Conference", domain |-> "Computer Science and AI", rank |-> "A*", aliases |-> <<"siggraph", "acm siggraph">>]>>,
    <<"chi", [name |-> "ACM Conference on Human Factors in Computing Systems", domain |-> "Computer Science and AI", rank |-> "A*", aliases |-> <<"chi", "human factors in computing systems">>]>>,
    <<"ccs", [name |-> "ACM Conference on Computer and Communications Security", domain |-> "Computer Science and AI", rank |-> "A*", aliases |-> <<"ccs", "computer and communications security">>]>>,
    <<"sp", [name |-> "IEEE Symposium on Security and Privacy", domain |-> "Computer Science and AI", rank |-> "A*", aliases |-> <<"sp", "ieee security and privacy", "oakland">>]>>,
    <<"usenix_security", [name |-> "USENIX Security Symposium", domain |-> "Computer Science and AI", rank |-> "A*", aliases |-> <<"usenix security", "usenix security symposium">>]>>,
    <<"icse", [name |-> "International Conference on Software Engineering", domain |-> "Computer Science and AI", rank |-> "A*", aliases |-> <<"icse", "international conference on software engineering">>]>>,
    <<"fse", [name |-> "ACM SIGSOFT Symposium on Foundations of Software Engineering", domain |-> "Computer Science and AI", rank |-> "A*", aliases |-> <<"fse", "foundations of software engineering">>]>>,
    <<"aistats", [name |-> "International Conference on Artificial Intelligence and Statistics", domain |-> "Statistics and Probability", rank |-> "A", aliases |-> <<"aistats", "artificial intelligence and statistics">>]>>,
    <<"recomb", [name |-> "Research in Computational Molecular Biology", domain |-> "Bioinformatics and Genetics", rank |-> "A", aliases |-> <<"recomb", "research in computational molecular biology">>]>>,
    <<"ismb", [name |-> "Intelligent Systems for Molecular Biology", domain |-> "Bioinformatics and Genetics", rank |-> "A", aliases |-> <<"ismb", "intelligent systems for molecular biology">>]>>
  >>

\* lines 197-271
scimago_rules ==
  <<
    << <<"statistics", "probability", "econometrics", "biostatistics", "statistical", "stochastic">>, "Statistics and Probability">>,
    << <<"artificial intelligence", "machine learning", "computer vision", "pattern recognition", "neural networks", "deep learning", "computer science", "software", "algorithms", "computational theory", "computer graphics", "human-computer interaction", "computer networks", "computer security", "databases", "programming languages">>, "Computer Science and AI">>,
    << <<"mathematics", "mathematical", "algebra", "geometry", "topology", "analysis", "number theory", "logic", "discrete mathematics", "applied mathematics", "computational mathematics">>, "Mathematics">>,
    << <<"bioinformatics", "computational biology", "genetics", "genomics", "molecular biology", "cell biology", "biochemistry", "biotechnology">>, "Bioinformatics and Genetics">>,
    << <<"economics", "finance", "econometrics", "business", "accounting", "management", "marketing", "organizational">>, "Economics and Finance">>,
    << <<"medicine", "medical", "health", "clinical", "epidemiology", "public health", "nursing", "pharmacy", "oncology", "cardiology", "surgery", "psychiatry", "radiology", "pathology">>, "Medicine and Health Sciences">>,
    << <<"environmental", "ecology", "climate", "atmospheric", "oceanography", "geology", "geography", "earth sciences", "sustainability", "conservation", "biodiversity">>, "Environmental and Earth Sciences">>,
    << <<"physics", "chemistry", "materials", "chemical", "physical", "quantum", "particle physics", "condensed matter">>, "Physics and Chemistry">>,
    << <<"engineering", "mechanical", "electrical", "civil", "aerospace", "industrial", "chemical engineering", "biomedical engineering">>, "Engineering">>,
    << <<"psychology", "sociology", "anthropology", "political science", "social sciences", "education", "linguistics", "communication">>, "Social Sciences">>
  >>

-----------------------------------------------------------------------------
(* Registry construction: ProfileAnalyzer.__init__ *)

\* _extract_all_scimago_subjects
RECURSIVE SubjectsOf(_)
SubjectsOf(cats) ==
  IF cats = <<>> THEN <<>>
  ELSE LET subject == Strip(SplitChar(Head(cats), "(")[1])
       IN (IF subject # "" THEN <<subject>> ELSE <<>>) \o SubjectsOf(Tail(cats))

_extract_all_scimago_subjects(categories) ==
  IF categories = "" THEN <<>> ELSE SubjectsOf(SplitChar(categories, ";"))

\* the if/elif chain of _map_scimago_to_research_domain: first rule with a term in the subject
RECURSIVE FirstRule(_, _, _)
FirstRule(rules, subject_lower, default) ==
  IF rules = <<>> THEN default
  ELSE IF AnyIn(Head(rules)[1], subject_lower) THEN Head(rules)[2]
       ELSE FirstRule(Tail(rules), subject_lower, default)

_map_scimago_to_research_domain(scimago_subject, journal_name) ==
  IF journal_name \in stats_journals THEN "Statistics and Probability"
  ELSE IF journal_name \in genetics_journals THEN "Bioinformatics and Genetics"
  ELSE FirstRule(scimago_rules, Lower(scimago_subject), scimago_subject)

\* the loop of _load_scimago_database over the subjects of one journal
RECURSIVE ResearchDomains(_, _, _)
ResearchDomains(subjects, journal_name, acc) ==
  IF subjects = <<>> THEN acc
  ELSE LET domain == _map_scimago_to_research_domain(Head(subjects), journal_name)
       IN ResearchDomains(Tail(subjects), journal_name,
            IF domain # "" /\ domain \notin Range(acc) THEN Append(acc, domain) ELSE acc)

\* the critical pass: self.journal_classifications[journal] = [classification]
\* for k, v in table.items(): d[k] = v, for a table of distinct keys: the keys d
\* has keep their place, the others are appended in table order
PutAll(d, table) ==
  LET New(e) == ~HasKey(d, e[1]) IN
  [i \in DOMAIN d |-> IF HasKey(table, d[i][1]) THEN <<d[i][1], Get(table, d[i][1])>> ELSE d[i]]
  \o SelectSeq(table, New)

\* a critical pass that leaves the keys d has alone (setdefault for the assignment):
\* the behaviour the override is compared against
PutCriticalMissing(d, table) ==
  LET New(e) == ~HasKey(d, e[1]) IN
  d \o SelectSeq([i \in DOMAIN table |-> <<table[i][1], <<table[i][2]>> >>], New)

PutCritical(d, table) ==
  PutAll(d, [i \in DOMAIN table |-> <<table[i][1], <<table[i][2]>> >>])

\* self.journal_classifications = fallback_journals: every value is a str
FallbackDict == [i \in DOMAIN fallback_journals |->
                   <<fallback_journals[i][1], Chars(fallback_journals[i][2])>>]

\* scimago_journals.json as the process may find it: missing, not loadable as
\* {'journals': {...}}, or a table of journals; an entry's 'categories' and
\* 'subject' are "" and None when the file leaves them out
Entry(name, categories, subject) ==
  [name |-> name, categories |-> categories, subject |-> subject]

JournalPool == <<
  Entry("biostatistics", "Statistics and Probability (Q1); Medicine (miscellaneous) (Q1)", "Statistics and Probability"),
  Entry("machine learning", "Statistics and Probability (Q2)", "Statistics and Probability"),
  Entry("journal of econometrics", "Applied Mathematics (Q1); Economics and Econometrics (Q1); History (Q1)", "Applied Mathematics"),
  Entry("nature communications", "Biochemistry, Genetics and Molecular Biology (Q1); Chemistry (Q1); Multidisciplinary (Q1)", "Biochemistry, Genetics and Molecular Biology"),
  Entry("broken entry", "", None),
  Entry("plos one", "Multidisciplinary (Q1)", "Multidisciplinary"),
  Entry("journal of chemometrics", "Analytical Chemistry (Q2); Applied Mathematics (Q2); Statistics and Probability (Q2); History (Q3)", "Analytical Chemistry")
>>

MaxJournals == 2

\* the journal tables of at most MaxJournals distinct entries of the pool, in any order
JournalTables ==
  {t \in UNION {[1..n -> DOMAIN JournalPool] : n \in 0..MaxJournals} :
     \A i, j \in DOMAIN t : i # j => t[i] # t[j]}

AllDatasets ==
  {[state |-> "absent", journals |-> <<>>], [state |-> "corrupt", journals |-> <<>>]}
  \cup {[state |-> "ok", journals |-> [i \in DOMAIN t |-> JournalPool[t[i]]]] : t \in JournalTables}
-----------------------------------------------------------------------------
(* Venue resolution *)

\* re.sub(r'\b(19|20)\d{2}\b', '', s)
IsYearAt(s, i) ==
  /\ i + 3 <= Len(s)
  /\ SubSeq(s, i, i + 1) \in {"19", "20"}
  /\ IsDigit(CharAt(s, i + 2)) /\ IsDigit(CharAt(s, i + 3))
  /\ Boundary(s, i) /\ Boundary(s, i + 4)

\* two matches never overlap: a match has \b at both ends and digits between
RemoveYears(s) ==
  IF s = "" THEN "" ELSE
  Join([i \in 1..Len(s) |->
          IF \E j \in (i - 3)..i : j >= 1 /\ IsYearAt(s, j) THEN "" ELSE CharAt(s, i)])

conference_boilerplate ==
  <<"proceedings of", "proc.", "conference on", "international", "acm", "ieee">>

RECURSIVE RemoveAll(_, _)
RemoveAll(s, removes) ==
  IF s = "" \/ removes = <<>> THEN s
  ELSE RemoveAll(Strip(Replace(s, Head(removes), "")), Tail(removes))

\* venue_clean of get_conference_classification
ConferenceClean(venue_lower) ==
  CollapseSpaces(Strip(RemoveYears(RemoveAll(venue_lower, conference_boilerplate))))

\* the alias tests of get_conference_classification for one conference
AliasMatch(conf_data, venue_lower) ==
  \/ venue_lower \in Range(conf_data.aliases)
  \/ \E a \in DOMAIN conf_data.aliases :
       LET alias == conf_data.aliases[a] IN
       /\ Contains(venue_lower, alias) \/ Contains(alias, venue_lower)
       /\ Len(alias) >= 8 \/ Len(venue_lower) >= 8

\* ConferenceCache.get_conference_classification: <<conf_data>>, or <<>> for None
get_conference_classification(confs, venue) ==
  LET venue_lower == Strip(Lower(venue))
      venue_clean == ConferenceClean(venue_lower)
      hits == {c \in DOMAIN confs : AliasMatch(confs[c][2], venue_lower)}
  IN IF HasKey(confs, venue_clean) THEN <<Get(confs, venue_clean)>>
     ELSE IF hits # {} THEN <<confs[CHOOSE c \in hits : \A h \in hits : c <= h][2]>>
     ELSE <<>>

\* venue_clean of _find_best_journal_match
JournalClean(venue_lower) ==
  Strip(CollapseSpaces(
    Replace(Replace(Replace(Replace(venue_lower, "(", " "), ")", " "), ",", " "), ".", " ")))

\* set(w for w in s.split() if len(w) > 2)
LongWords(s) == {w \in Words(s) : Len(w) > 2}

generic_words ==
  {"journal", "of", "the", "and", "for", "in", "on", "international", "society", "research"}

Candidate(score, length, name, domains, type) ==
  [score |-> score, length |-> length, name |-> name, domains |-> domains, type |-> type]

\* STEP 1 for one registry entry
SubstringCandidates(venue_lower, e) ==
  IF Contains(venue_lower, e[1]) /\ Len(e[1]) >= 10
  THEN <<Candidate(100, Len(e[1]), e[1], e[2], "exact_substring")>>
  ELSE IF Contains(e[1], venue_lower) /\ Len(venue_lower) >= 10
       THEN <<Candidate(95, Len(venue_lower), e[1], e[2], "reverse_substring")>>
       ELSE <<>>

\* STEP 2 for one registry entry (re.IGNORECASE on a lowercased venue)
AcronymCandidates(venue_lower, e) ==
  IF Len(e[1]) <= 8 /\ WordSearch(venue_lower, Lower(e[1]))
  THEN <<Candidate(90, Len(e[1]), e[1], e[2], "acronym")>>
  ELSE <<>>

\* STEP 3 for one registry entry; int(match_ratio * 30) is (30 * common) \div words
WordCandidates(venue_words, e) ==
  LET journal_words == LongWords(e[1])
      common == venue_words \cap journal_words
      nc == Cardinality(common)
      nj == Cardinality(journal_words)
  IN IF /\ Len(e[1]) >= 15
        /\ nj >= 3
        /\ \/ 10 * nc >= 8 * nj /\ nc >= 3
           \/ 10 * nc >= 9 * nj /\ nc >= 2
        /\ Cardinality(common \ generic_words) >= 2
     THEN <<Candidate(60 + ((30 * nc) \div nj), Len(e[1]), e[1], e[2], "word_match")>>
     ELSE <<>>

\* STEP 4 for one special pattern
PatternCandidates(venue_lower, p) ==
  IF Contains(venue_lower, p[1])
  THEN <<Candidate(85, Len(p[1]), p[3], p[2], "special_pattern")>>
  ELSE <<>>

\* the candidates a step makes of a table: <<step, index in the table, candidate>>
StepCandidates(step, made) ==
  {<<step, i, made[i][1]>> : i \in {k \in DOMAIN made : made[k] # <<>>}}

\* candidates of _find_best_journal_match; the code appends them in the order of
\* step, then index
JournalCandidates(registry, venue_lower) ==
  LET venue_words == LongWords(JournalClean(venue_lower)) IN
  StepCandidates(1, [i \in DOMAIN registry |-> SubstringCandidates(venue_lower, registry[i])] \o <<>>)
  \cup StepCandidates(2, [i \in DOMAIN registry |-> AcronymCandidates(venue_lower, registry[i])] \o <<>>)
  \cup StepCandidates(3, [i \in DOMAIN registry |-> WordCandidates(venue_words, registry[i])] \o <<>>)
  \cup StepCandidates(4, [i \in DOMAIN special_venue_patterns |->
                            PatternCandidates(venue_lower, special_venue_patterns[i])] \o <<>>)

Better(a, b) == a.score > b.score \/ (a.score = b.score /\ a.length > b.length)

Earlier(x, y) == x[1] < y[1] \/ (x[1] = y[1] /\ x[2] < y[2])

\* candidates.sort(key=(score, length), reverse=True)[0]: the sort is stable, so
\* of the candidates no other is better than, the one appended first
BestCandidate(cands) ==
  LET top == {x \in cands : \A y \in cands : ~Better(y[3], x[3])}
  IN (CHOOSE x \in top : \A y \in top : x = y \/ Earlier(x, y))[3]

QualityThreshold == 80

\* _find_best_journal_match: <<best_domains, best_journal>>, or <<>> for None
_find_best_journal_match(registry, venue_lower) ==
  LET cands == JournalCandidates(registry, venue_lower) IN
  IF cands = {} THEN <<>>
  ELSE LET best == BestCandidate(cands) IN
       IF best.score >= QualityThreshold THEN <<best.domains, best.name>> ELSE <<>>
-----------------------------------------------------------------------------
(* Keyword fallback *)

math_venue_terms ==
  <<"differential equations", "mathematical analysis", "pure mathematics",
    "applied mathematics", "mathematics", "mathematical">>

stat_venue_terms ==
  <<"statistics", "statistical", "probability", "stochastic",
    "bernoulli", "biometrika", "biostatistics">>

cs_ai_indicators ==
  <<"computer vision", "pattern recognition", "machine learning", "deep learning",
    "neural network", "artificial intelligence", "image processing", "computer graphics",
    "robotics", "natural language processing", "computer science">>

\* the keyword test of _classify_by_keywords
KeywordHit(keyword, text) ==
  IF Len(keyword) <= 3 THEN WordSearch(text, keyword) ELSE Contains(text, keyword)

\* sum of len(keyword.split()) over the keywords found in the text
KeywordScore(keywords, text) ==
  Sum([k \in DOMAIN keywords |->
         IF KeywordHit(keywords[k], text) THEN WordCount(keywords[k]) ELSE 0])

BoostLabel == "Machine Learning & AI"

PenaltyLabel == "Statistics & Probability"

\* the score of one domain after the boost and the penalty, times 5 (score *= 0.2 is a fifth)
DomainScore5(domain, keywords, text, is_cs_ai) ==
  LET score == KeywordScore(keywords, text) IN
  IF is_cs_ai /\ domain = BoostLabel /\ score > 0 THEN 5 * (score * 2)
  ELSE IF is_cs_ai /\ domain = PenaltyLabel THEN score
  ELSE 5 * score

\* paper_scores, as the scores of all domains in table order (0: not in paper_scores)
PaperScores5(table, text, is_cs_ai) ==
  [i \in DOMAIN table |-> DomainScore5(table[i][1], table[i][2], text, is_cs_ai)]

\* max(paper_scores.items(), key=lambda x: x[1])[0]: the first of the highest
ArgMaxFirst(scores) ==
  CHOOSE i \in DOMAIN scores :
    /\ \A j \in DOMAIN scores : scores[j] <= scores[i]
    /\ \A j \in 1..(i - 1) : scores[j] < scores[i]

\* _classify_by_keywords: the label, or None
_classify_by_keywords(publication) ==
  LET title == Lower(publication.title)
      venue == Lower(publication.venue)
      text  == title \o " " \o venue
  IN IF venue # "" /\ AnyIn(math_venue_terms, venue) /\ ~Contains(venue, "statistics")
     THEN "Mathematics"
     ELSE IF venue # "" /\ AnyIn(stat_venue_terms, venue)
     THEN "Statistics & Probability"
     ELSE LET is_cs_ai == AnyIn(cs_ai_indicators, text)
              scores == PaperScores5(keyword_domains, text, is_cs_ai)
          IN IF \E i \in DOMAIN scores : scores[i] > 0
             THEN keyword_domains[ArgMaxFirst(scores)][1]
             ELSE None

-----------------------------------------------------------------------------
(* Venue type *)

conference_indicators ==
  <<"conference", "workshop", "symposium", "proceedings",
    "cvpr", "iccv", "eccv", "neurips", "nips", "icml", "iclr",
    "aaai", "ijcai", "sigcomm", "nsdi", "osdi", "sosp",
    "stoc", "focs", "soda", "sigmod", "vldb", "icde">>

journal_indicators ==
  <<"journal", "review", "letters", "magazine", "transactions",
    "annals", "bulletin", "quarterly", "monthly", "annual review">>

preprint_indicators == <<"arxiv", "biorxiv", "medrxiv", "preprint">>

\* self.venue_types: set to {} by __init__ and written by no code that runs
venue_types == <<>>

_determine_venue_type(venue, matched_journal) ==
  LET venue_lower == Strip(Lower(venue)) IN
  IF venue = "" THEN "unknown"
  ELSE IF matched_journal # None /\ matched_journal # "" /\ HasKey(venue_types, matched_journal)
       THEN Get(venue_types, matched_journal)
  ELSE IF HasKey(venue_types, venue_lower) THEN Get(venue_types, venue_lower)
  ELSE IF AnyIn(conference_indicators, venue_lower) THEN "conference"
  ELSE IF AnyIn(journal_indicators, venue_lower) THEN "journal"
  ELSE IF AnyIn(preprint_indicators, venue_lower) THEN "preprint"
  ELSE "journal"

-----------------------------------------------------------------------------
(* Exact fractions for the float scores *)

RECURSIVE GCD(_, _)
GCD(a, b) == IF b = 0 THEN a ELSE GCD(b, a % b)

Frac(n, d) == LET g == GCD(n, d) IN IF n = 0 THEN <<0, 1>> ELSE <<n \div g, d \div g>>

FAdd(x, y) ==
  LET g == GCD(x[2], y[2])
      l == (x[2] \div g) * y[2]
  IN Frac(x[1] * (l \div x[2]) + y[1] * (l \div y[2]), l)

FDiv(x, y) ==
  LET g1 == GCD(x[1], y[1])
      g2 == GCD(x[2], y[2])
  IN IF x[1] = 0 THEN <<0, 1>>
     ELSE Frac((x[1] \div g1) * (y[2] \div g2), (x[2] \div g2) * (y[1] \div g1))

\* a rounding that drops the fraction (int() for round()): the behaviour the
\* percentage sums are compared against
RoundDown(n, d) == n \div d

\* the nearest integer to n / d, halves to the even one: round() of a float that holds
\* n / d exactly
RoundHalfEven(n, d) ==
  LET q == n \div d
      r == n % d
  IN IF 2 * r < d THEN q
     ELSE IF 2 * r > d THEN q + 1
     ELSE IF q % 2 = 0 THEN q ELSE q + 1

\* round(x * 100, 1) in tenths, for a fraction x
RoundTenths(x) == RoundHalfEven(1000 * x[1], x[2])

\* sum(scores.values()), by halves
RECURSIVE FSumRange(_, _, _)
FSumRange(scores, lo, hi) ==
  IF lo > hi THEN <<0, 1>>
  ELSE IF lo = hi THEN scores[lo][2]
  ELSE LET mid == (lo + hi) \div 2
       IN FAdd(FSumRange(scores, lo, mid), FSumRange(scores, mid + 1, hi))

FSum(scores) == FSumRange(scores, 1, Len(scores))
-----------------------------------------------------------------------------
(* Publications *)

Pub(title, authors, venue, citation_count) ==
  [title |-> title, authors |-> authors, venue |-> venue, citation_count |-> citation_count]

PubPool == <<
  Pub("Deep Residual Learning for Image Recognition", "K He, X Zhang, S Ren, J Sun", "CVPR 2022", 9),
  Pub("A note on survival models", "J Smith", "Biostatistics", 3),
  Pub("Instrumental variables revisited", "A Jones, J Smith", "Journal of Econometrics", 5),
  Pub("Deep learning for computer vision: statistical inference, estimation and regression", "J Smith, A Jones, et al", "", 2),
  Pub("Single cell atlas", "A Jones, B Lee, J Smith", "Nature Communications", 7),
  Pub("Bounds for bandits", "B Lee, J Smith", "Artificial Intelligence and Statistics 2022", 1),
  Pub("Notes from the field", "J Smith", "Village Gazette", 0)
>>

MaxPubs == 2

\* the lists of at most MaxPubs distinct publications of the pool, in any order
PubLists ==
  {[i \in DOMAIN t |-> PubPool[t[i]]] :
     t \in {u \in UNION {[1..n -> DOMAIN PubPool] : n \in 0..MaxPubs} :
              \A i, j \in DOMAIN u : i # j => u[i] # u[j]}}

-----------------------------------------------------------------------------
(* _journal_based_classification *)

Resolution(domains, matched_journal, method) ==
  [domains |-> domains, matched_journal |-> matched_journal, method |-> method]

\* a venue branch that does not ask the conference registry: the behaviour the
\* priority of the conference match is compared against
JournalResolution(registry, confs, venue) ==
  LET venue_lower == Lower(venue) IN
  IF venue = "" THEN Resolution(<<>>, None, None)
  ELSE IF HasKey(registry, venue_lower)
  THEN Resolution(Get(registry, venue_lower), venue_lower, "journal")
  ELSE LET match_result == _find_best_journal_match(registry, venue_lower) IN
       IF match_result # <<>>
       THEN Resolution(match_result[1], match_result[2], "journal")
       ELSE Resolution(<<>>, None, None)

\* the venue branch of the loop body: conference, then direct, then fuzzy match
VenueResolution(registry, confs, venue) ==
  LET venue_lower == Lower(venue)
      conference_result == get_conference_classification(confs, venue_lower)
  IN IF venue = "" THEN Resolution(<<>>, None, None)
     ELSE IF conference_result # <<>>
     THEN Resolution(<<conference_result[1].domain>>, Lower(conference_result[1].name), "conference")
     ELSE IF HasKey(registry, venue_lower)
     THEN Resolution(Get(registry, venue_lower), venue_lower, "journal")
     ELSE LET match_result == _find_best_journal_match(registry, venue_lower) IN
          IF match_result # <<>>
          THEN Resolution(match_result[1], match_result[2], "journal")
          ELSE Resolution(<<>>, None, None)

\* a loop body that asks the keyword classifier first and keeps the venue's answer
\* only when the keywords give none: the behaviour the fallback is compared against
KeywordFirst(res, pub) ==
  LET keyword_domain == _classify_by_keywords(pub) IN
  IF keyword_domain # None /\ keyword_domain # ""
  THEN Resolution(<<keyword_domain>>, res.matched_journal, "keyword")
  ELSE res

\* the keyword fallback of the loop body
WithKeywordFallback(res, pub) ==
  IF res.domains # <<>> THEN res
  ELSE LET keyword_domain == _classify_by_keywords(pub) IN
       IF keyword_domain # None /\ keyword_domain # ""
       THEN Resolution(<<keyword_domain>>, res.matched_journal, "keyword")
       ELSE res

\* paper_data of the loop body, for a publication with paper_domains
PaperData(i, pub, res) ==
  LET venue == Strip(pub.venue)
      venue_type == IF res.method = "conference" THEN "conference"
                    ELSE _determine_venue_type(venue, res.matched_journal)
      method == IF venue_type = "preprint" THEN "preprint"
                ELSE IF venue_type = "conference" /\ res.method = "journal" THEN "conference"
                ELSE res.method
  IN [pub |-> i,
      title |-> pub.title,
      citations |-> pub.citation_count,
      venue |-> IF venue # "" THEN venue ELSE "Unknown",
      venue_type |-> venue_type,
      classification_method |-> method,
      domains |-> res.domains,
      matched_journal |-> res.matched_journal]

\* weight_per_domain = 1.0 / len(paper_domains)
WeightPerDomain(paper_domains) == Frac(1, Len(paper_domains))

\* the number of times domain occurs in paper_domains
Occurrences(domains, domain) == Cardinality({i \in DOMAIN domains : domains[i] = domain})

\* the domains of paper_domains that are no key of d yet, in the order of first occurrence
NewDomains(d, domains) ==
  LET First(i) == ~HasKey(d, domains[i]) /\ \A j \in 1..(i - 1) : domains[j] # domains[i]
      idx == SelectSeq([i \in DOMAIN domains |-> i] \o <<>>, First)
  IN [n \in DOMAIN idx |-> domains[idx[n]]] \o <<>>

\* weight added k times to x: the fractions are exact, so that is x + k * weight
AddTimes(x, weight, k) == FAdd(x, Frac(k * weight[1], weight[2]))

\* for domain in paper_domains: area_scores[domain] += weight_per_domain, on a
\* defaultdict(float): a key keeps its place and gets the weight once per occurrence,
\* a new key is appended at its first occurrence
AddScores(scores, domains, weight) ==
  LET new == NewDomains(scores, domains) IN
  ([i \in DOMAIN scores |->
      <<scores[i][1], AddTimes(scores[i][2], weight, Occurrences(domains, scores[i][1]))>>] \o <<>>)
  \o ([n \in DOMAIN new |-> <<new[n], AddTimes(<<0, 1>>, weight, Occurrences(domains, new[n]))>>] \o <<>>)

\* paper_data repeated k times
Repeat(paper_data, k) == [n \in 1..k |-> paper_data] \o <<>>

\* for domain in paper_domains: area_papers[domain].append(paper_data), on a defaultdict(list)
AddPapers(papers, domains, paper_data) ==
  LET new == NewDomains(papers, domains) IN
  ([i \in DOMAIN papers |->
      <<papers[i][1], papers[i][2] \o Repeat(paper_data, Occurrences(domains, papers[i][1]))>>] \o <<>>)
  \o ([n \in DOMAIN new |-> <<new[n], Repeat(paper_data, Occurrences(domains, new[n]))>>] \o <<>>)

\* a descending sort that puts the later of two items with one value first (a sort
\* that is reversed after sorting ascending): the behaviour the stable sort is
\* compared against
SortDescTiesReversed(items) ==
  LET Rank(i) == Cardinality({j \in DOMAIN items : items[j][2] > items[i][2]})
                 + Cardinality({j \in i..Len(items) : items[j][2] = items[i][2]})
  IN IF items = <<>> THEN <<>>
     ELSE [k \in DOMAIN items |-> items[CHOOSE i \in DOMAIN items : Rank(i) = k]] \o <<>>

\* sorted(items, key=lambda x: x[1], reverse=True): the sort is stable, so an item
\* goes after the items with a higher value and the earlier items with its value
SortDesc(items) ==
  LET Rank(i) == Cardinality({j \in DOMAIN items : items[j][2] > items[i][2]})
                 + Cardinality({j \in 1..i : items[j][2] = items[i][2]})
  IN IF items = <<>> THEN <<>>
     ELSE [k \in DOMAIN items |-> items[CHOOSE i \in DOMAIN items : Rank(i) = k]] \o <<>>

\* area_percentages before sorting
AreaPercentages(scores) ==
  LET total_papers == FSum(scores) IN
  IF total_papers[1] > 0
  THEN [i \in DOMAIN scores |-> <<scores[i][1], RoundTenths(FDiv(scores[i][2], total_papers))>>]
  ELSE <<>>

\* sum(1 for papers in area_papers.values() for paper in papers if method matches)
CountMethod(papers, method) ==
  Sum([d \in DOMAIN papers |->
         Cardinality({k \in DOMAIN papers[d][2] : papers[d][2][k].classification_method = method})])

MainDomains == 9

\* the value _journal_based_classification returns
ResultOf(scores, papers) ==
  LET total_papers == FSum(scores)
      sorted_areas == SortDesc(AreaPercentages(scores))
      journal_classified == CountMethod(papers, "journal")
  IN [area_percentages |-> sorted_areas,
      area_papers |-> papers,
      primary_area |-> IF sorted_areas # <<>> THEN sorted_areas[1][1] ELSE None,
      interdisciplinary_score |-> IF scores # <<>> THEN <<Len(scores), MainDomains>> ELSE <<0, 1>>,
      journal_classified |-> journal_classified,
      keyword_classified |-> CountMethod(papers, "keyword"),
      total_classified |-> total_papers,
      journal_coverage |-> IF total_papers[1] > 0
                           THEN RoundTenths(FDiv(<<journal_classified, 1>>, total_papers))
                           ELSE 0]

\* area_scores = defaultdict(float); area_papers = defaultdict(list)
FreshScores == <<>>

FreshPapers == <<>>
-----------------------------------------------------------------------------
(* The interpreter's float: IEEE 754 binary64, round to nearest, ties to even *)

\* a natural number as the sequence of its base-2^15 digits, lowest first, no high zero
LimbBase == 2^15

\* the number of binary digits of a base-2^15 digit
LimbBits == CHOOSE k \in 1..30 : 2^k = LimbBase

RECURSIVE Nat2Big(_)
Nat2Big(n) == IF n = 0 THEN <<>> ELSE <<n % LimbBase>> \o Nat2Big(n \div LimbBase)

\* the value of a number that fits a machine integer
RECURSIVE Big2Nat(_)
Big2Nat(a) == IF a = <<>> THEN 0 ELSE Head(a) + LimbBase * Big2Nat(Tail(a))

RECURSIVE Trim(_)
Trim(a) == IF a # <<>> /\ a[Len(a)] = 0 THEN Trim(SubSeq(a, 1, Len(a) - 1)) ELSE a

Limb(a, i) == IF i <= Len(a) THEN a[i] ELSE 0

RECURSIVE BigAddFrom(_, _, _, _)
BigAddFrom(a, b, i, carry) ==
  IF i > Len(a) /\ i > Len(b) THEN (IF carry = 0 THEN <<>> ELSE <<carry>>)
  ELSE LET s == Limb(a, i) + Limb(b, i) + carry
       IN <<s % LimbBase>> \o BigAddFrom(a, b, i + 1, s \div LimbBase)

BigAdd(a, b) == BigAddFrom(a, b, 1, 0)

RECURSIVE BigSubFrom(_, _, _, _)
BigSubFrom(a, b, i, borrow) ==
  IF i > Len(a) THEN <<>>
  ELSE LET s == a[i] - Limb(b, i) - borrow
       IN <<s % LimbBase>> \o BigSubFrom(a, b, i + 1, IF s < 0 THEN 1 ELSE 0)

\* a - b for a >= b
BigSub(a, b) == Trim(BigSubFrom(a, b, 1, 0))

BigLess(a, b) ==
  IF Len(a) # Len(b) THEN Len(a) < Len(b)
  ELSE \E i \in DOMAIN a : a[i] < b[i] /\ \A j \in (i + 1)..Len(a) : a[j] = b[j]

RECURSIVE BigMulFrom(_, _, _, _)
BigMulFrom(a, k, i, carry) ==
  IF i > Len(a) THEN Nat2Big(carry)
  ELSE LET s == a[i] * k + carry
       IN <<s % LimbBase>> \o BigMulFrom(a, k, i + 1, s \div LimbBase)

\* a * k for 0 <= k <= 2^15
BigMulSmall(a, k) == IF k = 0 THEN <<>> ELSE BigMulFrom(a, k, 1, 0)

\* the remainder of the digits i.. of a by k
RECURSIVE BigRemFrom(_, _, _)
BigRemFrom(a, k, i) ==
  IF i > Len(a) THEN 0 ELSE (BigRemFrom(a, k, i + 1) * LimbBase + a[i]) % k

\* a \div k for 0 < k <= 2^15
BigDivSmall(a, k) ==
  Trim([i \in DOMAIN a |-> (BigRemFrom(a, k, i + 1) * LimbBase + a[i]) \div k] \o <<>>)

\* a * 2^n
BigShl(a, n) ==
  IF a = <<>> THEN <<>>
  ELSE [i \in 1..(n \div LimbBits) |-> 0] \o BigMulSmall(a, 2^(n % LimbBits))

\* a \div 2^n
BigShr(a, n) ==
  IF n \div LimbBits >= Len(a) THEN <<>>
  ELSE BigDivSmall(SubSeq(a, n \div LimbBits + 1, Len(a)), 2^(n % LimbBits))

BigIsOdd(a) == a # <<>> /\ a[1] % 2 = 1

\* the number of binary digits of a
BitLen(a) ==
  IF a = <<>> THEN 0
  ELSE (Len(a) - 1) * LimbBits + (CHOOSE k \in 1..LimbBits : 2^(k - 1) <= a[Len(a)] /\ a[Len(a)] < 2^k)

\* a \div 2^n rounded to nearest, ties to even
BigShrRound(a, n) ==
  IF n = 0 THEN a
  ELSE LET q == BigShr(a, n)
           r == BigSub(a, BigShl(q, n))
           half == BigShl(<<1>>, n - 1)
       IN IF BigLess(half, r) \/ (r = half /\ BigIsOdd(q)) THEN BigAdd(q, <<1>>) ELSE q

MantissaBits == 53

\* a binary64 value m * 2^e: m is 0 or has MantissaBits binary digits
Double(m, e) == [m |-> m, e |-> e]

DZero == Double(<<>>, 0)

\* the binary64 value nearest to n * 2^e
RoundDouble(n, e) ==
  LET len == BitLen(n) IN
  IF n = <<>> THEN DZero
  ELSE IF len <= MantissaBits THEN Double(BigShl(n, MantissaBits - len), e - (MantissaBits - len))
  ELSE LET q == BigShrRound(n, len - MantissaBits) IN
       IF BitLen(q) > MantissaBits
       THEN Double(BigShr(q, 1), e + (len - MantissaBits) + 1)
       ELSE Double(q, e + (len - MantissaBits))

\* float(n) for an int n >= 0
DFromInt(n) == RoundDouble(Nat2Big(n), 0)

\* x + y
DAdd(x, y) ==
  LET e == IF x.e < y.e THEN x.e ELSE y.e IN
  IF x.m = <<>> THEN y
  ELSE IF y.m = <<>> THEN x
  ELSE RoundDouble(BigAdd(BigShl(x.m, x.e - e), BigShl(y.m, y.e - e)), e)

\* x * k for an int 0 <= k <= 2^15
DMulSmall(x, k) == RoundDouble(BigMulSmall(x.m, k), x.e)

\* long division of r by d, one binary digit a step, until the quotient q has n
\* digits: the quotient and what is left of the dividend
RECURSIVE QuotientBits(_, _, _, _)
QuotientBits(r, d, q, n) ==
  IF BitLen(q) >= n THEN <<q, r>>
  ELSE IF BigLess(r, d) THEN QuotientBits(BigMulSmall(r, 2), d, BigMulSmall(q, 2), n)
  ELSE QuotientBits(BigMulSmall(BigSub(r, d), 2), d, BigAdd(BigMulSmall(q, 2), <<1>>), n)

GuardBits == MantissaBits + 3

\* x / y for y # 0: the quotient of the mantissas to GuardBits digits, with one
\* more digit that tells whether anything is left
DDiv(x, y) ==
  IF x.m = <<>> THEN DZero
  ELSE LET qr == QuotientBits(x.m, y.m, <<>>, GuardBits)
           steps == IF BigLess(x.m, y.m) THEN GuardBits + 1 ELSE GuardBits
           sticky == IF qr[2] = <<>> THEN <<>> ELSE <<1>>
       IN RoundDouble(BigAdd(BigMulSmall(qr[1], 2), sticky), x.e - y.e - steps)

\* round(x, 1) in tenths: the decimal nearest to the exact value of x, ties to even
DRoundTenths(x) ==
  LET n == BigMulSmall(x.m, 10) IN
  IF x.e >= 0 THEN Big2Nat(BigShl(n, x.e)) ELSE Big2Nat(BigShrRound(n, 0 - x.e))
-----------------------------------------------------------------------------
(* Regular expressions of the author parser *)

Lit(text) == [t |-> "lit", s |-> text]

WordBoundary == [t |-> "\\b", s |-> ""]

Spaces1 == [t |-> "\\s+", s |-> ""]

Spaces0 == [t |-> "\\s*", s |-> ""]

Digits1 == [t |-> "\\d+", s |-> ""]

\* the position after the run of whitespace (of digits) that starts at position i of s
SpaceEnd(s, i) == Min({j \in i..(Len(s) + 1) : j = Len(s) + 1 \/ ~IsSpace(CharAt(s, j))})

DigitEnd(s, i) == Min({j \in i..(Len(s) + 1) : j = Len(s) + 1 \/ ~IsDigit(CharAt(s, j))})

\* the match of toks[k..] at position i of s: the position after it, 0 for no match.
\* No pattern of the parser makes a quantifier give characters back.
RECURSIVE MatchEnd(_, _, _, _)
MatchEnd(s, i, toks, k) ==
  IF k > Len(toks) THEN i
  ELSE LET tok == toks[k]
           e == IF tok.t = "lit" THEN (IF StartsWithAt(s, i, tok.s) THEN i + Len(tok.s) ELSE 0)
                ELSE IF tok.t = "\\b" THEN (IF Boundary(s, i) THEN i ELSE 0)
                ELSE IF tok.t = "\\s+" THEN (IF SpaceEnd(s, i) > i THEN SpaceEnd(s, i) ELSE 0)
                ELSE IF tok.t = "\\s*" THEN SpaceEnd(s, i)
                ELSE (IF DigitEnd(s, i) > i THEN DigitEnd(s, i) ELSE 0)
       IN IF e = 0 THEN 0 ELSE MatchEnd(s, e, toks, k + 1)

\* re.search(pattern, s): the first position where the pattern matches, 0 for none
SearchAt(s, toks) ==
  LET hits == {i \in 1..Len(s) : MatchEnd(s, i, toks, 1) # 0}
  IN IF s = "" \/ hits = {} THEN 0 ELSE Min(hits)

-----------------------------------------------------------------------------
(* _parse_authors *)

Sentinel == "__TRUNCATED__"

\* the ASCII members of truncation_indicators
truncation_indicators ==
  <<"...", "et al", "et al.", "and others", "and more", "+ more", "+ others", "etc">>

plus_n_more == <<Lit("+"), Spaces0, Digits1, Spaces0, Lit("more")>>

_is_author_list_truncated(authors_string) ==
  LET authors_lower == Lower(authors_string)
  IN AnyIn(truncation_indicators, authors_lower) \/ SearchAt(authors_lower, plus_n_more) # 0

\* the ASCII members of truncation_patterns, up to the .*$ that ends each of them
truncation_patterns ==
  << <<Lit("...")>>,
     <<WordBoundary, Lit("et"), Spaces1, Lit("al")>>,
     <<WordBoundary, Lit("and"), Spaces1, Lit("others")>>,
     <<WordBoundary, Lit("and"), Spaces1, Lit("more")>>,
     plus_n_more,
     <<Lit("+"), Spaces0, Lit("others")>>,
     <<WordBoundary, Lit("etc")>> >>

\* re.sub(pattern + '.*$', '', cleaned, flags=re.IGNORECASE) on a one-line string
CutFrom(cleaned, toks) ==
  LET i == SearchAt(Lower(cleaned), toks)
  IN IF cleaned = "" \/ i = 0 THEN cleaned ELSE SubSeq(cleaned, 1, i - 1)

RECURSIVE CutAll(_, _)
CutAll(cleaned, k) ==
  IF cleaned = "" \/ k > Len(truncation_patterns) THEN cleaned
  ELSE CutAll(CutFrom(cleaned, truncation_patterns[k]), k + 1)

_clean_truncation_markers(authors_string) ==
  Strip(RStripChar(Strip(CutAll(authors_string, 1)), ","))

\* the separators of re.split(r',|;|\s+and\s+', s): the position after the one that
\* starts at position i, 0 when none starts there
SeparatorEnd(s, i) ==
  IF CharAt(s, i) \in {",", ";"} THEN i + 1
  ELSE MatchEnd(s, i, <<Spaces1, Lit("and"), Spaces1>>, 1)

\* re.split(r',|;|\s+and\s+', s)
RECURSIVE SplitAuthors(_)
SplitAuthors(s) ==
  LET seps == {i \in 1..Len(s) : SeparatorEnd(s, i) # 0}
      i == Min(seps)
  IN IF s = "" \/ seps = {} THEN <<s>>
     ELSE <<SubSeq(s, 1, i - 1)>> \o SplitAuthors(SubSeq(s, SeparatorEnd(s, i), Len(s)))

title_prefixes == <<"Dr", "Prof", "Mr", "Ms", "Mrs">>

name_suffixes == <<"Jr.", "Jr", "Sr.", "Sr", "III", "II", "IV">>

\* re.sub(r'^(Dr\.?|Prof\.?|Mr\.?|Ms\.?|Mrs\.?)\s+', '', author)
StripTitle(author) ==
  LET Ends == {MatchEnd(author, 1, <<Lit(title_prefixes[p]), Lit("."), Spaces1>>, 1)
                 : p \in DOMAIN title_prefixes}
              \cup {MatchEnd(author, 1, <<Lit(title_prefixes[p]), Spaces1>>, 1)
                      : p \in DOMAIN title_prefixes}
      e == Max(Ends)
  IN IF author = "" \/ e = 0 THEN author ELSE SubSeq(author, e, Len(author))

\* re.sub(r'\s+(Jr\.?|Sr\.?|III?|IV)$', '', author): the suffix that ends the string
\* after whitespace goes, with that whitespace
StripSuffix(author) ==
  LET n == Len(author)
      cut == {n - Len(name_suffixes[x]) : x \in
                {y \in DOMAIN name_suffixes :
                   /\ n > Len(name_suffixes[y])
                   /\ SubSeq(author, n - Len(name_suffixes[y]) + 1, n) = name_suffixes[y]
                   /\ IsSpace(CharAt(author, n - Len(name_suffixes[y])))}}
  IN IF author = "" \/ cut = {} THEN author ELSE RStrip(SubSeq(author, 1, Max(cut)))

truncation_remnants == {"...", "et al", "et al.", "and others", "and more", "etc"}

\* the body of the clean-up loop for one author
CleanAuthor(author) == Strip(StripSuffix(StripTitle(author)))

\* _parse_authors: the list of authors, with the sentinel last when truncated
_parse_authors(authors_string) ==
  LET pieces == SplitAuthors(_clean_truncation_markers(authors_string))
      Named(piece) == Strip(piece) # ""
      authors == [a \in DOMAIN SelectSeq(pieces, Named) |-> Strip(SelectSeq(pieces, Named)[a])] \o <<>>
      cleaned == [a \in DOMAIN authors |-> CleanAuthor(authors[a])] \o <<>>
      Kept(author) == author # "" /\ author \notin truncation_remnants
      cleaned_authors == SelectSeq(cleaned, Kept)
  IN IF authors_string = "" THEN <<>>
     ELSE IF _is_author_list_truncated(authors_string)
     THEN Append(cleaned_authors, Sentinel)
     ELSE cleaned_authors

-----------------------------------------------------------------------------
(* _determine_author_position *)

\* s.split(' '): the pieces between single spaces, the empty ones among them; the
\* behaviour the subscripts of name_parts are compared against
SplitOnSpace(s) == SplitChar(s, " ")

\* s.split(): the maximal runs of non-whitespace, in order
SplitWords(s) ==
  LET starts == WordStarts(s)
      Nth(k) == CHOOSE i \in starts : Cardinality({j \in starts : j < i}) = k - 1
  IN IF s = "" THEN <<>>
     ELSE [k \in 1..Cardinality(starts) |-> SubSeq(s, Nth(k), WordEnd(s, Nth(k)))] \o <<>>

common_words == <<"the", "and", "for", "with", "from", "van", "de", "la", "le">>

\* Methods 1 to 4 of the search loop for one author of the list
OwnerMatch(owner_name, name_parts, author) ==
  LET author_lower == Strip(Lower(author))
      first == Lower(name_parts[1])
      last_name == Lower(name_parts[Len(name_parts)])
      first_initial == CharAt(first, 1)
  IN \/ Contains(author_lower, Lower(owner_name))
     \/ /\ Len(name_parts) >= 2
        /\ \/ Contains(author_lower, last_name \o ", " \o first)
           \/ Contains(author_lower, first \o " " \o last_name)
           \/ Contains(author_lower, first_initial \o " " \o last_name)
           \/ Contains(author_lower, first_initial \o ". " \o last_name)
           \/ Contains(author_lower, last_name \o ", " \o first_initial)
           \/ Contains(author_lower, last_name \o ", " \o first_initial \o ".")
           \/ /\ Len(last_name) > 2
              /\ Contains(author_lower, last_name)
              /\ ~AnyIn(common_words, last_name)
              /\ WordSearch(author_lower, last_name)

\* the list without the sentinel
Visible(authors) ==
  LET Real(author) == author # Sentinel IN SelectSeq(authors, Real)

\* profile_index = None
NotFound == -1

\* a search that tries the full name on every author before the other forms (one
\* loop per hypothesis): the behaviour the single loop is compared against
ProfileIndexStrongestFirst(owner_name, name_parts, visible) ==
  LET full == {i \in DOMAIN visible : Contains(Strip(Lower(visible[i])), Lower(owner_name))}
      found == {i \in DOMAIN visible : OwnerMatch(owner_name, name_parts, visible[i])}
  IN IF full # {} THEN Min(full) - 1
     ELSE IF found = {} THEN NotFound ELSE Min(found) - 1

\* profile_index of the search loop, counted from 0
ProfileIndex(owner_name, name_parts, visible) ==
  LET found == {i \in DOMAIN visible : OwnerMatch(owner_name, name_parts, visible[i])}
  IN IF found = {} THEN NotFound ELSE Min(found) - 1

\* a role mapping that does not look at the truncation: the behaviour the
\* truncation-aware mapping is compared against
PositionRoleOfVisible(profile_index, n, is_truncated) ==
  IF profile_index = 0 THEN "first_author"
  ELSE IF profile_index = 1 THEN "second_author"
  ELSE IF profile_index = n - 1 THEN "last_author"
  ELSE "middle_author"

\* the role of the owner found at profile_index of a list of n visible authors
PositionRole(profile_index, n, is_truncated) ==
  IF profile_index = 0 THEN "first_author"
  ELSE IF profile_index = 1 THEN "second_author"
  ELSE IF profile_index = n - 1 /\ ~is_truncated THEN "last_author"
  ELSE IF profile_index = n - 1 /\ is_truncated THEN "middle_author"
  ELSE "middle_author"

_determine_author_position(owner_name, name_parts, authors) ==
  LET is_truncated == \E i \in DOMAIN authors : authors[i] = Sentinel
      visible == Visible(authors)
      profile_index == ProfileIndex(owner_name, name_parts, visible)
  IN IF authors = <<>> THEN "unknown"
     ELSE IF Len(visible) = 1 /\ ~is_truncated THEN "single_author"
     ELSE IF profile_index = NotFound THEN "unknown"
     ELSE PositionRole(profile_index, Len(visible), is_truncated)

-----------------------------------------------------------------------------
(* _analyze_authorship *)

roles ==
  <<"first_author", "second_author", "last_author", "middle_author", "single_author",
    "corresponding_author", "unknown">>

\* authorship_stats before the loop
EmptyStats == [r \in DOMAIN roles |-> <<roles[r], [count |-> 0, citations |-> 0, papers |-> <<>>]>>]

\* authorship_stats[role]: count += 1, citations += citations, papers.append(paper_data)
Credit(stats, role, paper_data) ==
  LET b == Get(stats, role)
  IN Put(stats, role, [count |-> b.count + 1,
                       citations |-> b.citations + paper_data.citations,
                       papers |-> Append(b.papers, paper_data)])

\* updates that credit every second author as last author too (the test of
\* len(author_list) left out): the behaviour the buckets are compared against
CreditSecondAsLast(stats, found, authors, paper_data) ==
  LET primary == Credit(stats, found, paper_data)
  IN IF found = "single_author"
     THEN Credit(Credit(primary, "first_author", paper_data), "last_author", paper_data)
     ELSE IF found = "second_author"
     THEN Credit(primary, "last_author", paper_data)
     ELSE primary

\* updates whose two-author rule counts the visible authors (the sentinel left out):
\* the behaviour the buckets of truncated lists are compared against
CreditVisibleCount(stats, found, authors, paper_data) ==
  LET primary == Credit(stats, found, paper_data)
  IN IF found = "single_author"
     THEN Credit(Credit(primary, "first_author", paper_data), "last_author", paper_data)
     ELSE IF found = "second_author" /\ Len(Visible(authors)) = 2
     THEN Credit(primary, "last_author", paper_data)
     ELSE primary

\* the updates of authorship_stats in one iteration of the loop
CreditPosition(stats, found, authors, paper_data) ==
  LET primary == Credit(stats, found, paper_data)
  IN IF found = "single_author"
     THEN Credit(Credit(primary, "first_author", paper_data), "last_author", paper_data)
     ELSE IF found = "second_author" /\ Len(authors) = 2
     THEN Credit(primary, "last_author", paper_data)
     ELSE primary

\* percentage and avg_citations of every role, in tenths
WithAverages(stats, total_papers) ==
  [r \in DOMAIN stats |->
     <<stats[r][1],
       [count |-> stats[r][2].count,
        citations |-> stats[r][2].citations,
        papers |-> stats[r][2].papers,
        percentage |-> IF total_papers > 0
                       THEN RoundHalfEven(1000 * stats[r][2].count, total_papers) ELSE 0,
        avg_citations |-> IF stats[r][2].count > 0
                          THEN RoundHalfEven(10 * stats[r][2].citations, stats[r][2].count)
                          ELSE 0]>>] \o <<>>
-----------------------------------------------------------------------------
(* The venue strings and the malformed publications the analysis runs draw from *)

\* venue strings: registry names, partial names, abbreviations, reordered names
MatchVenues == {
  "Journal of the American Statistical Association: Theory and Methods",
  "Journal of the Royal Statistical Society Series B (Methodological)",
  "The Annals of Statistics",
  "of the american",
  "Transactions of the American",
  "journal of the royal",
  "annals of applied",
  "JASA Theory and Methods",
  "Proc. JMLR",
  "american statistical association journal the",
  "arxiv preprint",
  "Village Gazette",
  "Proc. Natl. Acad. Sci.",
  "Journal of Machine Learning",
  "neural information processing",
  "CVPR 2022",
  "Proceedings of the IEEE International Conference on Computer Vision 2019",
  "statistics",
  "Biometrika",
  "x",
  "NIPS 2015",
  "acm chi",
  "Machine Vision",
  "ICML",
  "Proc. ICML 2019",
  "Learning",
  "sigmod record",
  "Physical Review Letters",
  "Statistical Science",
  "Annals of Applied Statistics",
  "Canadian Statistics Journal",
  "Political Economy Journal",
  "The Royal Statistical Society Journal",
  "Neural Networks and Learning Systems (IEEE Transactions)",
  "Learning Systems and Neural Networks, Transactions on",
  "Multivariate Analysis Journal",
  "Sociology: American Journal",
  "Journal of Computer Vision"
}

\* non-empty strings that are no titles, author lists or venues
MalformedStrings ==
  {" ", ",", ";;", "...", "et al", "(", ") .", "and", " and ", "Dr. ", "+ 3 more", "\\b(", "a;b,", "x"}

\* owner display names, the empty one among them
MalformedNames == {"", " ", "x", " x  y ", ".*", "(", "and others"}

MalformedPubs ==
  {Pub(t, a, v, 0) : t \in {",", "x", "\\b("}, a \in MalformedStrings, v \in MalformedStrings}


\* publications for the keyword fallback: a journal of the registry, venues no
\* registry holds (two of them with a term of the venue overrides), and titles with
\* and without keywords
KeywordPubs == {
  Pub("Notes from the field", "J Smith", "The Annals of Statistics", 1),
  Pub("Notes from the field", "J Smith", "Village Statistical Gazette", 1),
  Pub("Notes from the field", "J Smith", "Gazette of Mathematics", 1),
  Pub("Regression and estimation notes", "J Smith", "Village Gazette", 1),
  Pub("Deep learning for computer vision: statistical inference, estimation and regression", "J Smith, A Jones, et al", "", 2),
  Pub("Notes from the field", "J Smith", "Village Gazette", 0)
}
-----------------------------------------------------------------------------
(* ProfileAnalyzer.__init__: _load_journal_classifications *)

\* scimago_journals.json of the analysis runs: missing, or holding four journals
RunDatasets ==
  {[state |-> "absent", journals |-> <<>>],
   [state |-> "ok", journals |-> <<JournalPool[2], JournalPool[1], JournalPool[3], JournalPool[4]>>]}

NoStep == [pub |-> 0, domains |-> <<>>, method |-> None, before |-> <<>>]

\* the state in __init__ when it calls _load_journal_classifications
InitWith(datasets) ==
  /\ pc = "load_scimago"
  /\ dataset \in datasets
  /\ load_i = 0
  /\ journal_classifications = <<>>
  /\ conferences = basic_conferences
  /\ publications = <<>>
  /\ pub_i = 0
  /\ area_scores = <<>>
  /\ area_papers = <<>>
  /\ last_step = NoStep
  /\ results = <<>>
  /\ profile_name = ""
  /\ author_list = <<>>
  /\ position = None
  /\ authorship_stats = <<>>
  /\ citations = <<>>
  /\ cite_i = 0
  /\ h_index = 0
  /\ ServicesIdle

Init == InitWith(RunDatasets)

registry_vars == <<dataset, load_i, journal_classifications, conferences>>

classification_vars == <<publications, pub_i, area_scores, area_papers, last_step, results>>

authorship_vars == <<profile_name, author_list, position, authorship_stats>>

h_index_vars == <<citations, cite_i, h_index>>

\* _load_scimago_database up to the loop: the file is missing or json.load or
\* database['journals'] raises, or the registry is emptied and the loop starts
LoadScimagoOpen ==
  /\ pc = "load_scimago"
  /\ IF dataset.state = "ok"
     THEN /\ journal_classifications' = <<>>
          /\ load_i' = 1
          /\ pc' = "load_loop"
     ELSE /\ pc' = "except"
          /\ UNCHANGED <<journal_classifications, load_i>>
  /\ UNCHANGED <<dataset, conferences, classification_vars, authorship_vars, h_index_vars>>
  /\ UNCHANGED service_vars

\* the domains and the fallback subject the loop body stores for one entry
StoredDomains(journal_data) ==
  LET all_subjects == _extract_all_scimago_subjects(journal_data.categories)
      research_domains == ResearchDomains(all_subjects, journal_data.name, <<>>)
  IN IF research_domains # <<>> THEN research_domains ELSE <<journal_data.subject>>

\* what the loop body stores for each entry of the pool, computed once
StoredOfPool == [i \in DOMAIN JournalPool |-> StoredDomains(JournalPool[i])] \o <<>>

\* the loop body's value for an entry of a dataset
Stored(journal_data) ==
  StoredOfPool[CHOOSE i \in DOMAIN JournalPool : JournalPool[i] = journal_data]

\* journal_data['subject'] raises KeyError: no domain was found and the entry has no subject
SubjectMissing(journal_data) == Stored(journal_data) = <<None>>

\* one iteration of the loop of _load_scimago_database
LoadScimagoEntry ==
  /\ pc = "load_loop"
  /\ load_i <= Len(dataset.journals)
  /\ IF SubjectMissing(dataset.journals[load_i])
     THEN /\ pc' = "except"
          /\ UNCHANGED <<journal_classifications, load_i>>
     ELSE /\ journal_classifications' =
               Put(journal_classifications, dataset.journals[load_i].name,
                   Stored(dataset.journals[load_i]))
          /\ load_i' = load_i + 1
          /\ pc' = "load_loop"
  /\ UNCHANGED <<dataset, conferences, classification_vars, authorship_vars, h_index_vars>>
  /\ UNCHANGED service_vars

\* the loop of _load_scimago_database ends: back in the try block
LoadScimagoDone ==
  /\ pc = "load_loop"
  /\ load_i > Len(dataset.journals)
  /\ pc' = "critical"
  /\ UNCHANGED <<dataset, load_i, journal_classifications, conferences,
                 classification_vars, authorship_vars, h_index_vars>>
  /\ UNCHANGED service_vars

\* a fallback load that updates the registry in place (update() for the assignment),
\* keeping what the failed bulk load had stored: the behaviour the fallback is
\* compared against
FallbackOverLoaded(registry) == PutAll(registry, FallbackDict)

\* self.journal_classifications = fallback_journals
_load_fallback_journals(registry) == FallbackDict

\* the except block up to _add_critical_journals
LoadFallbackJournals ==
  /\ pc = "except"
  /\ journal_classifications' = _load_fallback_journals(journal_classifications)
  /\ pc' = "critical"
  /\ UNCHANGED <<dataset, load_i, conferences, classification_vars, authorship_vars, h_index_vars>>
  /\ UNCHANGED service_vars

\* _add_critical_journals, in the try block or in the except block
AddCriticalJournals ==
  /\ pc = "critical"
  /\ journal_classifications' = PutCritical(journal_classifications, critical_journals)
  /\ pc' = "ready"
  /\ UNCHANGED <<dataset, load_i, conferences, classification_vars, authorship_vars, h_index_vars>>
  /\ UNCHANGED service_vars

NextRegistry ==
  \/ LoadScimagoOpen
  \/ LoadScimagoEntry
  \/ LoadScimagoDone
  \/ LoadFallbackJournals
  \/ AddCriticalJournals

\* construction alone, over every dataset of the bounds
SpecRegistry == InitWith(AllDatasets) /\ [][NextRegistry]_vars

\* __init__ is straight-line code: a step that can be taken is taken
SpecRegistryLive == SpecRegistry /\ WF_vars(NextRegistry)

-----------------------------------------------------------------------------
(* _journal_based_classification, one loop iteration per step *)

\* the registries the constructions on RunDatasets end with
RunRegistries ==
  {PutCritical(IF d.state = "ok"
               THEN [i \in DOMAIN d.journals |-> <<d.journals[i].name, Stored(d.journals[i])>>]
               ELSE FallbackDict,
               critical_journals) : d \in RunDatasets}

\* the venue branch and the keyword fallback of the loop body for a publication
Resolve(registry, confs, pub) ==
  WithKeywordFallback(VenueResolution(registry, confs, Strip(pub.venue)), pub)

RECURSIVE SeqOfSet(_)
SeqOfSet(S) ==
  IF S = {} THEN <<>>
  ELSE LET x == CHOOSE y \in S : TRUE IN <<x>> \o SeqOfSet(S \ {x})

\* the title and the venue of every publication the classification runs draw
PoolKeys ==
  SeqOfSet({<<PubPool[i].title, PubPool[i].venue>> : i \in DOMAIN PubPool}
           \cup {<<"Notes from the field", venue>> : venue \in MatchVenues}
           \cup {<<pub.title, pub.venue>> : pub \in MalformedPubs}
           \cup {<<pub.title, pub.venue>> : pub \in KeywordPubs})

RegistrySeq == SeqOfSet(RunRegistries)

\* what Resolve returns for the publications of the pools, with the registry of each
\* construction and the conference table as built, computed once
ResolvedOfPool ==
  [k \in DOMAIN RegistrySeq |->
     [i \in DOMAIN PoolKeys |->
        Resolve(RegistrySeq[k], basic_conferences,
                Pub(PoolKeys[i][1], "", PoolKeys[i][2], 0))] \o <<>>] \o <<>>

\* Resolve, as the loop body calls it with the registry and the conference table of
\* the instance
Resolved(registry, confs, pub) ==
  ResolvedOfPool[CHOOSE k \in DOMAIN RegistrySeq : RegistrySeq[k] = registry /\ confs = basic_conferences]
                [CHOOSE i \in DOMAIN PoolKeys : PoolKeys[i] = <<pub.title, pub.venue>>]

\* a first call of _journal_based_classification(pubs)
StartRun ==
  /\ pc = "ready"
  /\ results = <<>>
  /\ \E pubs \in PubLists : publications' = pubs
  /\ area_scores' = FreshScores
  /\ area_papers' = FreshPapers
  /\ pub_i' = 1
  /\ last_step' = NoStep
  /\ pc' = "classify"
  /\ UNCHANGED <<registry_vars, results, authorship_vars, h_index_vars>>
  /\ UNCHANGED service_vars

MaxRuns == 2

\* a repeated call that finds the publications used up (an iterator the first call
\* has consumed): the behaviour the repeated run is compared against
RerunExhausted ==
  /\ pc = "ready"
  /\ results # <<>>
  /\ Len(results) < MaxRuns
  /\ area_scores' = FreshScores
  /\ area_papers' = FreshPapers
  /\ pub_i' = Len(publications) + 1
  /\ last_step' = NoStep
  /\ pc' = "classify"
  /\ UNCHANGED <<registry_vars, publications, results, authorship_vars, h_index_vars>>
  /\ UNCHANGED service_vars

\* the call is repeated on the same publication list
Rerun ==
  /\ pc = "ready"
  /\ results # <<>>
  /\ Len(results) < MaxRuns
  /\ area_scores' = FreshScores
  /\ area_papers' = FreshPapers
  /\ pub_i' = 1
  /\ last_step' = NoStep
  /\ pc' = "classify"
  /\ UNCHANGED <<registry_vars, publications, results, authorship_vars, h_index_vars>>
  /\ UNCHANGED service_vars

\* a loop body that also stores what it resolved for the venue in the registry (a
\* registry that learns): the behaviour the read-only registry is compared against
ClassifyPubCaching ==
  /\ pc = "classify"
  /\ pub_i <= Len(publications)
  /\ LET pub == publications[pub_i]
         res == Resolve(journal_classifications, conferences, pub)
         paper_data == PaperData(pub_i, pub, res)
     IN /\ last_step' = [pub |-> pub_i, domains |-> res.domains,
                        method |-> IF res.domains # <<>> THEN paper_data.classification_method
                                   ELSE None,
                        before |-> area_scores]
        /\ IF res.domains # <<>>
           THEN /\ area_scores' = AddScores(area_scores, res.domains, WeightPerDomain(res.domains))
                /\ area_papers' = AddPapers(area_papers, res.domains, paper_data)
                /\ journal_classifications' =
                     Put(journal_classifications, Lower(Strip(pub.venue)), res.domains)
           ELSE UNCHANGED <<area_scores, area_papers, journal_classifications>>
  /\ pub_i' = pub_i + 1
  /\ UNCHANGED <<pc, dataset, load_i, conferences, publications, results, authorship_vars,
                 h_index_vars>>
  /\ UNCHANGED service_vars

\* the body of the for loop for publications[pub_i]
ClassifyPub ==
  /\ pc = "classify"
  /\ pub_i <= Len(publications)
  /\ LET pub == publications[pub_i]
         res == Resolved(journal_classifications, conferences, pub)
         paper_data == PaperData(pub_i, pub, res)
     IN /\ last_step' = [pub |-> pub_i, domains |-> res.domains,
                        method |-> IF res.domains # <<>> THEN paper_data.classification_method
                                   ELSE None,
                        before |-> area_scores]
        /\ IF res.domains # <<>>
           THEN /\ area_scores' = AddScores(area_scores, res.domains, WeightPerDomain(res.domains))
                /\ area_papers' = AddPapers(area_papers, res.domains, paper_data)
           ELSE UNCHANGED <<area_scores, area_papers>>
  /\ pub_i' = pub_i + 1
  /\ UNCHANGED <<pc, registry_vars, publications, results, authorship_vars, h_index_vars>>
  /\ UNCHANGED service_vars

\* the loop has ended: the results are computed and returned
FinishRun ==
  /\ pc = "classify"
  /\ pub_i > Len(publications)
  /\ results' = Append(results, ResultOf(area_scores, area_papers))
  /\ pc' = "ready"
  /\ UNCHANGED <<registry_vars, publications, pub_i, area_scores, area_papers, last_step,
                 authorship_vars, h_index_vars>>
  /\ UNCHANGED service_vars

Next ==
  \/ LoadScimagoOpen
  \/ LoadScimagoEntry
  \/ LoadScimagoDone
  \/ LoadFallbackJournals
  \/ AddCriticalJournals
  \/ StartRun
  \/ Rerun
  \/ ClassifyPub
  \/ FinishRun

Spec == Init /\ [][Next]_vars

-----------------------------------------------------------------------------
(* Calls on a constructed analyzer *)

\* the analyzer after a construction that found no dataset
Constructed ==
  /\ pc = "ready"
  /\ dataset = [state |-> "absent", journals |-> <<>>]
  /\ load_i = 0
  /\ journal_classifications = PutCritical(FallbackDict, critical_journals)
  /\ conferences = basic_conferences
  /\ publications = <<>>
  /\ pub_i = 0
  /\ area_scores = <<>>
  /\ area_papers = <<>>
  /\ last_step = NoStep
  /\ results = <<>>
  /\ profile_name = ""
  /\ author_list = <<>>
  /\ position = None
  /\ authorship_stats = <<>>
  /\ citations = <<>>
  /\ cite_i = 0
  /\ h_index = 0
  /\ ServicesIdle

-----------------------------------------------------------------------------
(* _analyze_authorship, one loop iteration per step *)

NamePool == {"John Smith", "Bo Lee", "Truncated"}

AuthorPool == <<
  Pub("P1", "J Smith", "", 1),
  Pub("P2", "A Jones, J Smith", "", 2),
  Pub("P3", "J Smith, A Jones, et al", "", 4),
  Pub("P4", "A Jones, J Smith, et al.", "", 8),
  Pub("P5", "Dr. A Jones; B Lee and John Smith Jr.", "", 16),
  Pub("P6", "A Jones, B Lee, J Smith, ...", "", 32),
  Pub("P7", "A Jones, B Lee, Smith, J, C Wu", "", 64),
  Pub("P8", "", "", 128),
  Pub("P9", "A Jones and C Wu + 3 more", "", 256),
  Pub("P10", "J Smith et al", "", 512)
>>

\* the publication lists of at most MaxPubs publications of the author pool
AuthorPubLists ==
  {[i \in DOMAIN t |-> AuthorPool[t[i]]] :
     t \in UNION {[1..n -> DOMAIN AuthorPool] : n \in 0..MaxPubs}}

\* a call of _analyze_authorship(profile_data, pubs), up to the loop
StartAuthorship ==
  /\ pc = "ready"
  /\ \E name \in NamePool : profile_name' = Lower(name)
  /\ \E pubs \in AuthorPubLists : publications' = pubs
  /\ authorship_stats' = EmptyStats
  /\ pub_i' = 1
  /\ author_list' = <<>>
  /\ position' = None
  /\ pc' = "authorship"
  /\ UNCHANGED <<registry_vars, area_scores, area_papers, last_step, results, h_index_vars>>
  /\ UNCHANGED service_vars

\* paper_data of the loop body; pub tells the papers of a list apart
AuthorPaper(i, pub) == [pub |-> i, title |-> pub.title, citations |-> pub.citation_count]

\* the body of the for loop for publications[pub_i]
AuthorshipStep ==
  /\ pc = "authorship"
  /\ pub_i <= Len(publications)
  /\ \E parsed \in {_parse_authors(publications[pub_i].authors)} :
       \E found \in {_determine_author_position(profile_name, SplitWords(profile_name), parsed)} :
         /\ author_list' = parsed
         /\ position' = found
         /\ authorship_stats' =
              CreditPosition(authorship_stats, found, parsed, AuthorPaper(pub_i, publications[pub_i]))
  /\ pub_i' = pub_i + 1
  /\ UNCHANGED <<pc, registry_vars, publications, area_scores, area_papers, last_step,
                 results, profile_name, h_index_vars>>
  /\ UNCHANGED service_vars

\* the loop has ended: percentages and averages, and the return
FinishAuthorship ==
  /\ pc = "authorship"
  /\ pub_i > Len(publications)
  /\ authorship_stats' = WithAverages(authorship_stats, Len(publications))
  /\ pc' = "authorship_done"
  /\ UNCHANGED <<registry_vars, classification_vars, profile_name, author_list, position,
                 h_index_vars>>
  /\ UNCHANGED service_vars

NextAuthor ==
  \/ StartAuthorship
  \/ AuthorshipStep
  \/ FinishAuthorship

SpecAuthor == Constructed /\ [][NextAuthor]_vars

-----------------------------------------------------------------------------
(* _calculate_h_index, one loop iteration per step *)

CiteValues == {0, 3, 4, 5, 8, 10}

MaxCites == 5

\* the lists of at most MaxCites citation counts
CitationLists == UNION {[1..n -> CiteValues] : n \in 0..MaxCites}

\* sorted(citations, reverse=True)
SortedDesc(counts) ==
  [k \in DOMAIN counts |->
     CHOOSE v \in Range(counts) :
       /\ Cardinality({j \in DOMAIN counts : counts[j] > v}) < k
       /\ k <= Cardinality({j \in DOMAIN counts : counts[j] >= v})] \o <<>>

\* a call of _calculate_h_index(counts), up to the loop
StartHIndex ==
  /\ pc = "ready"
  /\ \E counts \in CitationLists : citations' = SortedDesc(counts)
  /\ h_index' = 0
  /\ cite_i' = 0
  /\ pc' = "h_index"
  /\ UNCHANGED <<registry_vars, classification_vars, authorship_vars>>
  /\ UNCHANGED service_vars

\* a test that asks for more than i + 1 citations (> for >=): the behaviour the
\* h-index is compared against
ReachesStrictly(citation_count, i) == citation_count > i + 1

\* the test of the loop body, for the i of enumerate
Reaches(citation_count, i) == citation_count >= i + 1

\* one iteration of the loop: h_index = i + 1, or break
HIndexStep ==
  /\ pc = "h_index"
  /\ cite_i < Len(citations)
  /\ IF Reaches(citations[cite_i + 1], cite_i)
     THEN /\ h_index' = cite_i + 1
          /\ cite_i' = cite_i + 1
          /\ pc' = "h_index"
     ELSE /\ pc' = "h_done"
          /\ UNCHANGED <<h_index, cite_i>>
  /\ UNCHANGED <<registry_vars, classification_vars, authorship_vars, citations>>
  /\ UNCHANGED service_vars

\* the loop has run to its end: return h_index
HIndexReturn ==
  /\ pc = "h_index"
  /\ cite_i >= Len(citations)
  /\ pc' = "h_done"
  /\ UNCHANGED <<registry_vars, classification_vars, authorship_vars, h_index_vars>>
  /\ UNCHANGED service_vars

NextH ==
  \/ StartHIndex
  \/ HIndexStep
  \/ HIndexReturn

SpecH == Constructed /\ [][NextH]_vars
-----------------------------------------------------------------------------
(* _journal_based_classification with the scores as the binary64 values the   *)
(* interpreter computes, on the permutations of a publication list           *)

\* weight_per_domain = 1.0 / len(paper_domains)
DWeightPerDomain(paper_domains) == DDiv(DFromInt(1), DFromInt(Len(paper_domains)))

\* for domain in paper_domains: area_scores[domain] += weight_per_domain
RECURSIVE DAddScores(_, _, _)
DAddScores(scores, domains, weight) ==
  IF domains = <<>> THEN scores
  ELSE LET domain == Head(domains)
           old == IF HasKey(scores, domain) THEN Get(scores, domain) ELSE DZero
       IN DAddScores(Put(scores, domain, DAdd(old, weight)), Tail(domains), weight)

\* sum(area_scores.values()): the values are added in the order of the dict
RECURSIVE DSumFrom(_, _, _)
DSumFrom(scores, i, acc) ==
  IF i > Len(scores) THEN acc
  ELSE IF acc.m = <<>> THEN DSumFrom(scores, i + 1, scores[i][2])
  ELSE DSumFrom(scores, i + 1, DAdd(acc, scores[i][2]))

DSum(scores) == DSumFrom(scores, 1, DZero)

\* round(count / total_papers * 100, 1), in tenths
DPercent(count, total_papers) == DRoundTenths(DMulSmall(DDiv(count, total_papers), 100))

\* area_percentages before sorting
DAreaPercentages(scores) ==
  LET total_papers == DSum(scores) IN
  IF total_papers.m # <<>>
  THEN [i \in DOMAIN scores |-> <<scores[i][1], DPercent(scores[i][2], total_papers)>>]
  ELSE <<>>

\* the value _journal_based_classification returns
DResultOf(scores, papers) ==
  LET total_papers == DSum(scores)
      sorted_areas == SortDesc(DAreaPercentages(scores))
      journal_classified == CountMethod(papers, "journal")
  IN [area_percentages |-> sorted_areas,
      area_papers |-> papers,
      primary_area |-> IF sorted_areas # <<>> THEN sorted_areas[1][1] ELSE None,
      interdisciplinary_score |-> IF scores # <<>> THEN <<Len(scores), MainDomains>> ELSE <<0, 1>>,
      journal_classified |-> journal_classified,
      keyword_classified |-> CountMethod(papers, "keyword"),
      total_classified |-> total_papers,
      journal_coverage |-> IF total_papers.m # <<>>
                           THEN DPercent(DFromInt(journal_classified), total_papers)
                           ELSE 0]

\* the publications of the order runs: two in a journal of one domain, one in a
\* journal of three, one in a journal of four
OrderPool == <<
  Pub("Empirical likelihood ratio tests", "J Smith", "Biometrika", 4),
  Pub("Rank tests for dependent samples", "J Smith, A Jones", "Biometrika", 2),
  Pub("Instrumental variables revisited", "A Jones, J Smith", "Journal of Econometrics", 5),
  Pub("Calibration transfer for spectra", "B Lee, J Smith", "Journal of Chemometrics", 1)
>>

MaxOrderPubs == 4

\* the lists of at most MaxOrderPubs distinct publications of the pool, in any order
OrderLists ==
  {[i \in DOMAIN t |-> OrderPool[t[i]]] :
     t \in {u \in UNION {[1..n -> DOMAIN OrderPool] : n \in 0..MaxOrderPubs} :
              \A i, j \in DOMAIN u : i # j => u[i] # u[j]}}

\* the permutations of a list of distinct publications
Reorderings(pubs) ==
  {[i \in DOMAIN pubs |-> pubs[f[i]]] \o <<>> :
     f \in {g \in [DOMAIN pubs -> DOMAIN pubs] : \A i, j \in DOMAIN pubs : i # j => g[i] # g[j]}}

\* scimago_journals.json of the order runs, and the registry __init__ builds from it
OrderDataset == [state |-> "ok", journals |-> <<JournalPool[3], JournalPool[7]>>]

OrderRegistry ==
  PutCritical([i \in DOMAIN OrderDataset.journals |->
                 <<OrderDataset.journals[i].name, Stored(OrderDataset.journals[i])>>],
              critical_journals)

\* the analyzer after a construction that loaded OrderDataset
ConstructedLoaded ==
  /\ pc = "ready"
  /\ dataset = OrderDataset
  /\ load_i = Len(OrderDataset.journals) + 1
  /\ journal_classifications = OrderRegistry
  /\ conferences = basic_conferences
  /\ publications = <<>>
  /\ pub_i = 0
  /\ area_scores = <<>>
  /\ area_papers = <<>>
  /\ last_step = NoStep
  /\ results = <<>>
  /\ profile_name = ""
  /\ author_list = <<>>
  /\ position = None
  /\ authorship_stats = <<>>
  /\ citations = <<>>
  /\ cite_i = 0
  /\ h_index = 0
  /\ ServicesIdle

\* what the loop body finds for each publication of the pool against the registry
\* of the order runs, computed once
ResolvedOfOrderPool ==
  [i \in DOMAIN OrderPool |->
     Resolve(OrderRegistry, basic_conferences, OrderPool[i])] \o <<>>

ResolvedOrder(pub) == ResolvedOfOrderPool[CHOOSE i \in DOMAIN OrderPool : OrderPool[i] = pub]

\* a first call of _journal_based_classification(pubs)
StartRunDouble ==
  /\ pc = "ready"
  /\ results = <<>>
  /\ \E pubs \in OrderLists : publications' = pubs
  /\ area_scores' = FreshScores
  /\ area_papers' = FreshPapers
  /\ pub_i' = 1
  /\ last_step' = NoStep
  /\ pc' = "classify"
  /\ UNCHANGED <<registry_vars, results, authorship_vars, h_index_vars>>
  /\ UNCHANGED service_vars

\* a second call, on the same publications in another order
RerunPermuted ==
  /\ pc = "ready"
  /\ Len(results) = 1
  /\ \E pubs \in Reorderings(publications) : publications' = pubs
  /\ area_scores' = FreshScores
  /\ area_papers' = FreshPapers
  /\ pub_i' = 1
  /\ last_step' = NoStep
  /\ pc' = "classify"
  /\ UNCHANGED <<registry_vars, results, authorship_vars, h_index_vars>>
  /\ UNCHANGED service_vars

\* the body of the for loop for publications[pub_i]
ClassifyPubDouble ==
  /\ pc = "classify"
  /\ pub_i <= Len(publications)
  /\ LET pub == publications[pub_i]
         res == ResolvedOrder(pub)
         paper_data == PaperData(pub_i, pub, res)
     IN /\ last_step' = [pub |-> pub_i, domains |-> res.domains,
                        method |-> IF res.domains # <<>> THEN paper_data.classification_method
                                   ELSE None,
                        before |-> area_scores]
        /\ IF res.domains # <<>>
           THEN /\ area_scores' = DAddScores(area_scores, res.domains, DWeightPerDomain(res.domains))
                /\ area_papers' = AddPapers(area_papers, res.domains, paper_data)
           ELSE UNCHANGED <<area_scores, area_papers>>
  /\ pub_i' = pub_i + 1
  /\ UNCHANGED <<pc, registry_vars, publications, results, authorship_vars, h_index_vars>>
  /\ UNCHANGED service_vars

\* the loop has ended: the results are computed and returned
FinishRunDouble ==
  /\ pc = "classify"
  /\ pub_i > Len(publications)
  /\ results' = Append(results, DResultOf(area_scores, area_papers))
  /\ pc' = "ready"
  /\ UNCHANGED <<registry_vars, publications, pub_i, area_scores, area_papers, last_step,
                 authorship_vars, h_index_vars>>
  /\ UNCHANGED service_vars

NextOrder ==
  \/ StartRunDouble
  \/ RerunPermuted
  \/ ClassifyPubDouble
  \/ FinishRunDouble

SpecOrder == ConstructedLoaded /\ [][NextOrder]_vars
-----------------------------------------------------------------------------
(* Venue resolution of one publication, over a pool of venue strings *)

\* a call of _journal_based_classification on one publication with a venue of the pool
StartMatch ==
  /\ pc = "ready"
  /\ results = <<>>
  /\ \E venue \in MatchVenues :
       publications' = <<Pub("Notes from the field", "J Smith", venue, 0)>>
  /\ area_scores' = FreshScores
  /\ area_papers' = FreshPapers
  /\ pub_i' = 1
  /\ last_step' = NoStep
  /\ pc' = "classify"
  /\ UNCHANGED <<registry_vars, results, authorship_vars, h_index_vars>>
  /\ UNCHANGED service_vars

NextMatch ==
  \/ StartMatch
  \/ ClassifyPub
  \/ FinishRun

SpecMatch == Constructed /\ [][NextMatch]_vars
-----------------------------------------------------------------------------
(* The analysis of one publication whose fields are malformed strings *)

\* a call of _journal_based_classification on one such publication
StartMalformedRun ==
  /\ pc = "ready"
  /\ results = <<>>
  /\ \E pub \in MalformedPubs : publications' = <<pub>>
  /\ area_scores' = FreshScores
  /\ area_papers' = FreshPapers
  /\ pub_i' = 1
  /\ last_step' = NoStep
  /\ pc' = "classify"
  /\ UNCHANGED <<registry_vars, results, authorship_vars, h_index_vars>>
  /\ UNCHANGED service_vars

\* a call of _analyze_authorship on one such publication, for any owner name
StartMalformedAuthorship ==
  /\ pc = "ready"
  /\ results = <<>>
  /\ \E name \in MalformedNames : profile_name' = Lower(name)
  /\ \E pub \in MalformedPubs : pub.title = "x" /\ pub.venue = "x" /\ publications' = <<pub>>
  /\ authorship_stats' = EmptyStats
  /\ pub_i' = 1
  /\ author_list' = <<>>
  /\ position' = None
  /\ pc' = "authorship"
  /\ UNCHANGED <<registry_vars, area_scores, area_papers, last_step, results, h_index_vars>>
  /\ UNCHANGED service_vars

NextMalformed ==
  \/ StartMalformedRun
  \/ ClassifyPub
  \/ FinishRun
  \/ StartMalformedAuthorship
  \/ AuthorshipStep
  \/ FinishAuthorship

SpecMalformed == Constructed /\ [][NextMalformed]_vars

-----------------------------------------------------------------------------
(* Construction followed by analysis calls *)

NextFrame ==
  \/ NextRegistry
  \/ StartRun
  \/ ClassifyPub
  \/ FinishRun
  \/ StartMalformedAuthorship
  \/ AuthorshipStep
  \/ FinishAuthorship

SpecFrame == Init /\ [][NextFrame]_vars
-----------------------------------------------------------------------------
(* _analyze_authorship on one publication, over owner names and author strings
   that tell the hypotheses of the owner search apart *)

\* owner display names: two words, a surname that holds a connector word ("and" in
\* Anderson, "le" in Lee), a surname of two letters, a surname that is a connector
\* word, a single word
PositionNames == {"John Smith", "Sam Anderson", "Bo Lee", "Ann Li", "Jo Van", "Cher"}

\* author strings: the surname alone, inside a longer word, next to a stronger match,
\* no match at all, and strings that hold "etc" or "et al" inside or across names
PositionAuthors ==
  {"A Smith, John Smith, C Wu", "A Jones, C Wu", "C Wu", "A Jones, Anderson S, C Wu",
   "A Jones, Lee", "A Jones, Li", "A Jones, Van", "A Smithson, C Wu", "A Jones, Smith",
   "A Jones, Cher", "Smith-Jones, C Wu", "A Fletcher, C Wu", "A Janet Alba",
   "A Jones, C Wu, etc.", "A Jones et al", "B Smith, J Smith", "C Wu, Smith, John"}

\* a call of _analyze_authorship on one publication with such an author string
StartPosition ==
  /\ pc = "ready"
  /\ \E name \in PositionNames : profile_name' = Lower(name)
  /\ \E authors \in PositionAuthors : publications' = <<Pub("P", authors, "", 0)>>
  /\ authorship_stats' = EmptyStats
  /\ pub_i' = 1
  /\ author_list' = <<>>
  /\ position' = None
  /\ pc' = "authorship"
  /\ UNCHANGED <<registry_vars, area_scores, area_papers, last_step, results, h_index_vars>>
  /\ UNCHANGED service_vars

NextPosition ==
  \/ StartPosition
  \/ AuthorshipStep
  \/ FinishAuthorship

SpecPosition == Constructed /\ [][NextPosition]_vars
-----------------------------------------------------------------------------
(* cache_manager: the convenience functions over a connected Redis client *)

\* CacheManager.prefix
prefix == "scholar_analyzer:"

\* sep.join(parts)
RECURSIVE JoinWith(_, _)
JoinWith(parts, sep) ==
  IF parts = <<>> THEN ""
  ELSE IF Len(parts) = 1 THEN parts[1]
  ELSE parts[1] \o sep \o JoinWith(Tail(parts), sep)

\* a key built as prefix + namespace + ':' + identifier (the prefix brings its colon):
\* the behaviour the join of the three parts is compared against
PrefixedKey(namespace, identifier) == prefix \o JoinWith(<<namespace, identifier>>, ":")

\* CacheManager._generate_key without params
_generate_key(namespace, identifier) == JoinWith(<<prefix, namespace, identifier>>, ":")

\* a key of the server matches a glob pattern made of literal characters and '*'
RECURSIVE GlobMatchAt(_, _, _, _)
GlobMatchAt(pattern, i, key, j) ==
  IF i > Len(pattern) THEN j > Len(key)
  ELSE IF CharAt(pattern, i) = "*"
  THEN \E k \in j..(Len(key) + 1) : GlobMatchAt(pattern, i + 1, key, k)
  ELSE /\ j <= Len(key)
       /\ CharAt(key, j) = CharAt(pattern, i)
       /\ GlobMatchAt(pattern, i + 1, key, j + 1)

\* the keys of the server: the store is the set of its <<key, data>> pairs
StoredKeys(store) == {item[1] : item \in store}

\* redis_client.keys(full_pattern)
MatchingKeys(store, full_pattern) ==
  {k \in StoredKeys(store) : GlobMatchAt(full_pattern, 1, k, 1)}

\* redis_client.delete(*keys)
Without(store, keys) == {item \in store : item[1] \notin keys}

\* CacheManager.delete_pattern: the store after it and the number of keys deleted
delete_pattern(store, pattern) ==
  LET keys == MatchingKeys(store, prefix \o pattern)
  IN [store |-> Without(store, keys), deleted |-> Cardinality(keys)]

\* CacheManager.get on a connected client: the data of the key, None for a miss
CacheGet(store, namespace, identifier) ==
  LET key == _generate_key(namespace, identifier)
  IN IF key \in StoredKeys(store)
     THEN (CHOOSE item \in store : item[1] = key)[2]
     ELSE None

\* CacheManager.set on a connected client: setex(key, ttl, data)
CacheSet(store, namespace, identifier, data) ==
  LET key == _generate_key(namespace, identifier)
  IN Without(store, {key}) \cup {<<key, data>>}

\* profile ids, one a prefix of the other
ProfileIds == {"p1", "p10"}

AnalysisTypes == {"areas", "full"}

CacheData == {"d1"}

CacheCall(op, profile_id, analysis_type, returned) ==
  [op |-> op, profile_id |-> profile_id, analysis_type |-> analysis_type, returned |-> returned]

cache_frame ==
  <<pc, registry_vars, classification_vars, authorship_vars, h_index_vars, alarm, areas_call>>

\* cache_publications(profile_id, data)
CachePublications ==
  /\ pc = "ready"
  /\ \E profile_id \in ProfileIds, data \in CacheData :
       /\ redis_store' = CacheSet(redis_store, "publications", profile_id, data)
       /\ cache_call' = CacheCall("cache_publications", profile_id, None, TRUE)
  /\ UNCHANGED cache_frame

\* cache_profile(profile_id, data)
CacheProfile ==
  /\ pc = "ready"
  /\ \E profile_id \in ProfileIds, data \in CacheData :
       /\ redis_store' = CacheSet(redis_store, "profiles", profile_id, data)
       /\ cache_call' = CacheCall("cache_profile", profile_id, None, TRUE)
  /\ UNCHANGED cache_frame

\* cache_analysis(profile_id, analysis_type, data)
CacheAnalysis ==
  /\ pc = "ready"
  /\ \E profile_id \in ProfileIds, analysis_type \in AnalysisTypes, data \in CacheData :
       /\ redis_store' =
            CacheSet(redis_store, "analysis", profile_id \o "_" \o analysis_type, data)
       /\ cache_call' = CacheCall("cache_analysis", profile_id, analysis_type, TRUE)
  /\ UNCHANGED cache_frame

\* get_cached_publications(profile_id)
get_cached_publications(store, profile_id) == CacheGet(store, "publications", profile_id)

\* get_cached_profile(profile_id)
get_cached_profile(store, profile_id) == CacheGet(store, "profiles", profile_id)

\* get_cached_analysis(profile_id, analysis_type)
get_cached_analysis(store, profile_id, analysis_type) ==
  CacheGet(store, "analysis", profile_id \o "_" \o analysis_type)

\* a call of one of the three get functions
GetCached ==
  /\ pc = "ready"
  /\ \E profile_id \in ProfileIds :
       \/ cache_call' = CacheCall("get_cached_publications", profile_id, None,
                                  get_cached_publications(redis_store, profile_id))
       \/ cache_call' = CacheCall("get_cached_profile", profile_id, None,
                                  get_cached_profile(redis_store, profile_id))
       \/ \E analysis_type \in AnalysisTypes :
            cache_call' = CacheCall("get_cached_analysis", profile_id, analysis_type,
                                    get_cached_analysis(redis_store, profile_id, analysis_type))
  /\ UNCHANGED <<redis_store, cache_frame>>

\* the three patterns of invalidate_profile_cache
InvalidationPatterns(profile_id) ==
  <<"publications:" \o profile_id \o "*",
    "analysis:" \o profile_id \o "*",
    "profiles:" \o profile_id \o "*">>

\* the loop of invalidate_profile_cache from pattern k on
RECURSIVE DeletePatterns(_, _, _, _)
DeletePatterns(store, patterns, k, total_deleted) ==
  IF k > Len(patterns) THEN [store |-> store, deleted |-> total_deleted]
  ELSE LET r == delete_pattern(store, patterns[k])
       IN DeletePatterns(r.store, patterns, k + 1, total_deleted + r.deleted)

\* invalidate_profile_cache(profile_id)
InvalidateProfileCache ==
  /\ pc = "ready"
  /\ \E profile_id \in ProfileIds :
       LET r == DeletePatterns(redis_store, InvalidationPatterns(profile_id), 1, 0)
       IN /\ redis_store' = r.store
          /\ cache_call' = CacheCall("invalidate_profile_cache", profile_id, None, r.deleted)
  /\ UNCHANGED cache_frame

\* the TTL of a key runs out
Expire ==
  /\ \E key \in StoredKeys(redis_store) : redis_store' = Without(redis_store, {key})
  /\ UNCHANGED <<cache_call, cache_frame>>

NextCache ==
  \/ CachePublications
  \/ CacheProfile
  \/ CacheAnalysis
  \/ GetCached
  \/ InvalidateProfileCache
  \/ Expire

SpecCache == Constructed /\ [][NextCache]_vars

-----------------------------------------------------------------------------
(* The keyword fallback inside _journal_based_classification *)

\* a call of _journal_based_classification on one or two publications of KeywordPubs
StartKeyword ==
  /\ pc = "ready"
  /\ results = <<>>
  /\ \E first \in KeywordPubs : \E rest \in {<<>>} \cup {<<pub>> : pub \in KeywordPubs \ {first}} :
       publications' = <<first>> \o rest
  /\ area_scores' = FreshScores
  /\ area_papers' = FreshPapers
  /\ pub_i' = 1
  /\ last_step' = NoStep
  /\ pc' = "classify"
  /\ UNCHANGED <<registry_vars, results, authorship_vars, h_index_vars>>
  /\ UNCHANGED service_vars

NextKeyword ==
  \/ StartKeyword
  \/ ClassifyPub
  \/ FinishRun

SpecKeyword == Constructed /\ [][NextKeyword]_vars

-----------------------------------------------------------------------------
(* _classify_research_areas: the alarm around the external enrichment *)

\* the call self._journal_based_classification(publications) that ends the function
EnterJournalBased ==
  /\ area_scores' = FreshScores
  /\ area_papers' = FreshPapers
  /\ pub_i' = 1
  /\ last_step' = NoStep
  /\ pc' = "classify"

areas_frame == <<registry_vars, results, authorship_vars, h_index_vars, redis_store, cache_call>>

\* the call: with enrichment enabled the handler is installed, signal.alarm(60) arms
\* the alarm and classify_publications starts; otherwise the journal-based
\* classification starts at once
_classify_research_areas ==
  /\ pc = "ready"
  /\ areas_call = "idle"
  /\ results = <<>>
  /\ \E first \in KeywordPubs : \E rest \in {<<>>} \cup {<<pub>> : pub \in KeywordPubs \ {first}} :
       publications' = <<first>> \o rest
  /\ \E use_semantic_scholar \in BOOLEAN :
       IF use_semantic_scholar
       THEN /\ alarm' = "armed"
            /\ areas_call' = "enrich"
            /\ UNCHANGED <<area_scores, area_papers, pub_i, last_step, pc>>
       ELSE /\ EnterJournalBased
            /\ areas_call' = "plain"
            /\ UNCHANGED alarm
  /\ UNCHANGED areas_frame

\* the alarm goes off inside the try block of search_paper_by_title: its except
\* Exception takes the TimeoutError of the handler and classification goes on
TimeoutSwallowed ==
  /\ areas_call = "enrich"
  /\ alarm = "armed"
  /\ alarm' = "off"
  /\ UNCHANGED <<areas_call, pc, classification_vars, areas_frame>>

\* the alarm goes off elsewhere in classify_publications: except TimeoutError cancels
\* the alarm and calls self._keyword_based_classification, which ProfileAnalyzer does
\* not define; the outer except Exception takes the AttributeError
EnrichTimesOut ==
  /\ areas_call = "enrich"
  /\ alarm = "armed"
  /\ alarm' = "off"
  /\ areas_call' = "after_timeout"
  /\ EnterJournalBased
  /\ UNCHANGED <<publications, areas_frame>>

\* classify_publications reaches _enhance_keyword_classification, which calls
\* analyzer._keyword_based_classification: the AttributeError is no TimeoutError and
\* goes to the outer except Exception, which falls through
EnhanceRaises ==
  /\ areas_call = "enrich"
  /\ areas_call' = "after_error"
  /\ EnterJournalBased
  /\ UNCHANGED <<alarm, publications, areas_frame>>

\* the journal-based classification that ends the call is running or has returned
InJournalBased == areas_call \in {"plain", "after_timeout", "after_error"}

\* SIGALRM arrives while the alarm is still armed: the handler raises TimeoutError in
\* the journal-based classification, or in whatever runs after the call has returned
AlarmFires ==
  /\ InJournalBased
  /\ alarm = "armed"
  /\ alarm' = "off"
  /\ IF pc = "classify"
     THEN pc' = "ready" /\ areas_call' = "raised"
     ELSE pc' = pc /\ areas_call' = "late_timeout"
  /\ UNCHANGED <<publications, pub_i, area_scores, area_papers, last_step, areas_frame>>

NextAlarm ==
  \/ _classify_research_areas
  \/ TimeoutSwallowed
  \/ EnrichTimesOut
  \/ EnhanceRaises
  \/ ClassifyPub
  \/ FinishRun
  \/ AlarmFires

SpecAlarm == Constructed /\ [][NextAlarm]_vars

-----------------------------------------------------------------------------
(* Fractional weights of _journal_based_classification *)

\* area_scores[domain] of a defaultdict(float): 0.0 for a key that is not there
ScoreOf(scores, domain) == IF HasKey(scores, domain) THEN Get(scores, domain) ELSE <<0, 1>>

\* the publication of the last loop iteration gained `domain` exactly weight
GainedExactly(domain, weight) ==
  ScoreOf(area_scores, domain) = FAdd(ScoreOf(last_step.before, domain), weight)

\* C1: in _journal_based_classification a publication that is assigned a non-empty
\* list of N domains adds exactly 1/N to the score of each of those N domains, and a
\* publication with no assigned domain adds 0 to every domain score.
C1_WeightPerDomain ==
  (pc = "classify" /\ last_step.pub # 0) =>
    IF last_step.domains = <<>>
    THEN area_scores = last_step.before
    ELSE \A i \in DOMAIN last_step.domains :
           GainedExactly(last_step.domains[i], Frac(1, Len(last_step.domains)))

\* the same statement for the analyzers that loaded the bulk dataset, where every
\* registry value is a list of domain labels
C1_WeightPerDomainOfLists ==
  dataset.state = "ok" => C1_WeightPerDomain

\* a publication of a bulk-loaded registry that was assigned several domains
C1_WitnessLists ==
  /\ dataset.state = "ok"
  /\ pc = "classify"
  /\ Len(last_step.domains) >= 2

-----------------------------------------------------------------------------
(* Percentages of _journal_based_classification *)

\* sum(area_percentages.values()) of a returned result, in tenths of a percent
PercentSum(result) ==
  Sum([i \in DOMAIN result.area_percentages |-> result.area_percentages[i][2]])

\* |x - 100.0| in tenths of a percent
OffHundred(x) == IF x >= 1000 THEN x - 1000 ELSE 1000 - x

-----------------------------------------------------------------------------
(* The registry after construction *)

\* __init__ has returned
ConstructionDone == pc \notin {"load_scimago", "load_loop", "except", "critical"}

\* C3: once registry construction has finished, on either load path, every key of
\* the critical-journals table maps to exactly the one-element list holding its
\* critical domain, whatever the bulk dataset or the fallback table held for that
\* key, and nothing that runs afterwards changes that.
C3_CriticalOverridesWin ==
  ConstructionDone =>
    \A i \in DOMAIN critical_journals :
      /\ HasKey(journal_classifications, critical_journals[i][1])
      /\ Get(journal_classifications, critical_journals[i][1]) = <<critical_journals[i][2]>>

\* a constructed analyzer whose bulk dataset held another classification for a
\* critical key, after a classification run
C3_Witness ==
  /\ ConstructionDone
  /\ results # <<>>
  /\ \E i \in DOMAIN dataset.journals :
       /\ HasKey(critical_journals, dataset.journals[i].name)
       /\ Stored(dataset.journals[i]) # <<Get(critical_journals, dataset.journals[i].name)>>

\* the bulk dataset is absent or cannot be loaded: the file is missing, it is not
\* a table of journals, or one of its entries makes the loop raise
LoadFails(d) ==
  \/ d.state # "ok"
  \/ \E i \in DOMAIN d.journals : SubjectMissing(d.journals[i])

\* C4: when the bulk subject dataset is absent or cannot be loaded, construction
\* completes without raising (it goes on to its end), and the resulting registry
\* holds the fallback table's keys plus the critical-journal keys.
C4_FallbackOnFailedLoad ==
  /\ LoadFails(dataset) ~> ConstructionDone
  /\ [](LoadFails(dataset) /\ ConstructionDone =>
         Keys(journal_classifications) = Keys(fallback_journals) \cup Keys(critical_journals))

\* a construction that had stored a journal of the dataset when a later entry raised
C4_Witness ==
  /\ ConstructionDone
  /\ dataset.state = "ok"
  /\ Len(dataset.journals) >= 2
  /\ load_i = 2
  /\ SubjectMissing(dataset.journals[2])
  /\ dataset.journals[1].name \notin Keys(fallback_journals) \cup Keys(critical_journals)

-----------------------------------------------------------------------------
(* Resolution order of _journal_based_classification *)

\* the venue of the publication of the last loop iteration, stripped
LastVenue == Strip(publications[last_step.pub].venue)

\* a 4-digit year as venues carry it
VenueYears == {"1999", "2022"}

\* C5: a publication whose venue gets a match in the conference registry is assigned
\* exactly that conference's single domain with the method tag conference, whatever
\* the journal registry, the fuzzy matcher or the keyword classifier give for it; and
\* a conference key followed by a 4-digit year ("CVPR 2022") matches that key.
C5_ConferenceMatchWins ==
  /\ (pc = "classify" /\ last_step.pub # 0 /\ LastVenue # "") =>
       LET conference_result == get_conference_classification(conferences, Lower(LastVenue))
       IN conference_result # <<>> =>
            /\ last_step.domains = <<conference_result[1].domain>>
            /\ last_step.method = "conference"
  /\ pc = "load_scimago" =>
       /\ get_conference_classification(conferences, Lower("CVPR 2022")) = <<Get(conferences, "cvpr")>>
       /\ \A i \in DOMAIN conferences : \A year \in VenueYears :
            get_conference_classification(conferences, conferences[i][1] \o " " \o year)
              = <<conferences[i][2]>>

\* a publication whose venue the conference registry and the fuzzy journal match
\* classify differently was given the conference's domain
C5_Witness ==
  /\ pc = "classify"
  /\ last_step.pub # 0
  /\ last_step.method = "conference"
  /\ LET other == JournalResolution(journal_classifications, conferences, LastVenue)
     IN other.domains # <<>> /\ other.domains # last_step.domains

-----------------------------------------------------------------------------
(* Boost and penalty of _classify_by_keywords *)

\* the keyword_domains keys of the AI/ML domain and of the Statistics domain
AIDomain == "Computer Science and AI"

StatisticsDomain == "Statistics and Probability"

\* the position of a key in keyword_domains
DomainIndex(domain) == CHOOSE i \in DOMAIN keyword_domains : keyword_domains[i][1] = domain

\* title + " " + venue, lowercased
KeywordText(pub) == Lower(pub.title) \o " " \o Lower(pub.venue)

\* neither venue-name branch of _classify_by_keywords returns
NoVenueOverride(pub) ==
  LET venue == Lower(pub.venue) IN
  ~(venue # "" /\ (AnyIn(math_venue_terms, venue) \/ AnyIn(stat_venue_terms, venue)))

\* C6: when the title+venue text holds a strong CS/AI term and no venue override
\* applies, the AI/ML domain's keyword score is doubled and the Statistics domain's
\* score is multiplied by 0.2 before the maximum is taken (scores are held times 5);
\* so a publication with an unmatched venue whose title holds both "deep learning" and
\* "computer vision" is classified to the AI/ML domain, statistics keywords or not.
C6_BoostAndPenalty ==
  (pc = "classify" /\ last_step.pub # 0) =>
    LET pub == publications[last_step.pub]
        text == KeywordText(pub)
        scores == PaperScores5(keyword_domains, text, TRUE)
    IN (AnyIn(cs_ai_indicators, text) /\ NoVenueOverride(pub)) =>
         /\ scores[DomainIndex(AIDomain)]
              = 5 * (2 * KeywordScore(keyword_domains[DomainIndex(AIDomain)][2], text))
         /\ scores[DomainIndex(StatisticsDomain)]
              = KeywordScore(keyword_domains[DomainIndex(StatisticsDomain)][2], text)
         /\ (/\ last_step.method = "keyword"
             /\ Contains(Lower(pub.title), "deep learning")
             /\ Contains(Lower(pub.title), "computer vision"))
            => last_step.domains = <<AIDomain>>

-----------------------------------------------------------------------------
(* Buckets of _analyze_authorship *)

\* the publications handled so far
Handled == 1..(pub_i - 1)

\* what _analyze_authorship computes for the publications of the pool, per owner
PoolParsed == [k \in DOMAIN AuthorPool |-> _parse_authors(AuthorPool[k].authors)] \o <<>>

PoolRoles ==
  [name \in {Lower(n) : n \in NamePool} |->
     [k \in DOMAIN AuthorPool |->
        _determine_author_position(name, SplitWords(name), PoolParsed[k])] \o <<>>]

PoolIndex(pub) == CHOOSE k \in DOMAIN AuthorPool : AuthorPool[k] = pub

\* the author list and the role of publications[i]
ParsedAuthors(i) == PoolParsed[PoolIndex(publications[i])]

ResolvedRole(i) == PoolRoles[profile_name][PoolIndex(publications[i])]

\* how often publication i is in the paper list of a bucket
Memberships(role, i) ==
  LET papers == Get(authorship_stats, role).papers
  IN Cardinality({k \in DOMAIN papers : papers[k].pub = i})

\* the buckets the claim gives publication i
BucketsOf(i) ==
  IF ResolvedRole(i) = "single_author" THEN {"single_author", "first_author", "last_author"}
  ELSE IF ResolvedRole(i) = "second_author" /\ Len(ParsedAuthors(i)) = 2
       THEN {"second_author", "last_author"}
  ELSE {ResolvedRole(i)}

-----------------------------------------------------------------------------
(* Roles of _determine_author_position *)

\* the last loop iteration of _analyze_authorship has called _determine_author_position
PositionDetermined == pc = "authorship" /\ pub_i > 1

\* '__TRUNCATED__' in author_list
LastTruncated == \E k \in DOMAIN author_list : author_list[k] = Sentinel

\* the index of the owner in the visible list of the last call, NotFound for none
LastIndex == ProfileIndex(profile_name, SplitWords(profile_name), Visible(author_list))

\* the last index of the visible list of the last call
LastVisible == Len(Visible(author_list)) - 1

\* the owner was found and the single-author rule did not apply
OwnerFound ==
  /\ PositionDetermined
  /\ author_list # <<>>
  /\ ~(LastVisible = 0 /\ ~LastTruncated)
  /\ LastIndex # NotFound

\* C8: once the owner is found at index i of the visible token list and the
\* single-author rule does not apply, the role is first_author if i = 0; second_author
\* if i = 1, also when 1 is the last index, truncated or not; last_author if i >= 2 is
\* the last index and the list is not truncated; middle_author if i >= 2 is the last
\* index and the list is truncated; middle_author for any other index.
C8_RoleOfIndex ==
  OwnerFound =>
    /\ LastIndex = 0 => position = "first_author"
    /\ LastIndex = 1 => position = "second_author"
    /\ (LastIndex >= 2 /\ LastIndex = LastVisible /\ ~LastTruncated) => position = "last_author"
    /\ (LastIndex >= 2 /\ LastIndex = LastVisible /\ LastTruncated) => position = "middle_author"
    /\ (LastIndex >= 2 /\ LastIndex # LastVisible) => position = "middle_author"

\* the owner is the last visible author, at index 2, of a truncated list
C8_Witness ==
  /\ OwnerFound
  /\ LastIndex = 2
  /\ LastIndex = LastVisible
  /\ LastTruncated
  /\ position = "middle_author"

-----------------------------------------------------------------------------
(* The value of _calculate_h_index *)

\* at least h of the counts are >= h
AtLeast(counts, h) == Cardinality({k \in DOMAIN counts : counts[k] >= h}) >= h

\* the largest h such that at least h counts are >= h; 0 always qualifies
LargestH(counts) == Max({h \in 0..Len(counts) : AtLeast(counts, h)})

\* C9: for every list of non-negative citation counts _calculate_h_index returns
\* the largest h such that at least h entries are >= h, 0 when there is no such
\* h >= 1 (the empty list and the all-zero lists included); [10,8,5,4,3] gives 4.
C9_HIndexIsLargestH ==
  pc = "h_done" =>
    /\ h_index = LargestH(citations)
    /\ citations = <<10, 8, 5, 4, 3>> => h_index = 4
    /\ (\A k \in DOMAIN citations : citations[k] = 0) => h_index = 0

\* the call on a permutation of [10,8,5,4,3] has returned 4
C9_Witness ==
  /\ pc = "h_done"
  /\ citations = <<10, 8, 5, 4, 3>>
  /\ h_index = 4

-----------------------------------------------------------------------------
(* Repeated runs of _journal_based_classification *)

\* the fields of a result the repeated run is compared on
Summary(result) ==
  <<result.area_percentages, result.primary_area, result.interdisciplinary_score>>

\* C10: running _journal_based_classification again on the same publication list
\* with the same analyzer returns identical area_percentages, primary_area and
\* interdisciplinary_score: the first run leaves nothing behind that changes the next.
C10_RerunIsIdentical ==
  \A k \in DOMAIN results : Summary(results[k]) = Summary(results[1])

\* a second run has returned, on a list that is classified into several domains
C10_Witness ==
  /\ Len(results) >= 2
  /\ Len(results[2].area_percentages) >= 2
  /\ pc = "ready"
-----------------------------------------------------------------------------
(* C11: the aggregated output and the order of the publications *)

\* a dict as a mapping: the set of its items
Items(d) == {d[i] : i \in DOMAIN d}

\* both calls have returned: the second one ran on a permutation of the first one's list
BothReturned == pc = "ready" /\ Len(results) = 2

Tenths(d, k) == IF HasKey(d, k) THEN Get(d, k) ELSE 0

\* C11: for every publication list and every permutation of it,
\* _journal_based_classification returns the same domain-to-percentage mapping and
\* the same interdisciplinary score.
C11_OrderInvariant ==
  BothReturned =>
    /\ Items(results[1].area_percentages) = Items(results[2].area_percentages)
    /\ results[1].interdisciplinary_score = results[2].interdisciplinary_score

\* C11, as far as it holds: a permutation leaves the domains and the
\* interdisciplinary score as they are and moves no percentage by more than 0.1
C11_OrderInvariantToOneTenth ==
  BothReturned =>
    /\ Keys(results[1].area_percentages) = Keys(results[2].area_percentages)
    /\ results[1].interdisciplinary_score = results[2].interdisciplinary_score
    /\ \A k \in Keys(results[1].area_percentages) :
         /\ Tenths(results[1].area_percentages, k) - Tenths(results[2].area_percentages, k) <= 1
         /\ Tenths(results[2].area_percentages, k) - Tenths(results[1].area_percentages, k) <= 1

\* two orders of one list of four publications have been classified, a domain
\* ends on 6.2 in one and on 6.3 in the other
C11_Witness ==
  /\ BothReturned
  /\ Len(publications) = 4
  /\ Tenths(results[1].area_percentages, "Physics and Chemistry") = 62
  /\ Tenths(results[2].area_percentages, "Physics and Chemistry") = 63
-----------------------------------------------------------------------------
(* C12: the keyword classifier is a fallback, and an unclassified publication *)
(* counts nowhere                                                             *)

\* what venue resolution alone finds for each publication of the pool against each
\* registry of the runs, computed once
VenueOfPool ==
  [registry \in RunRegistries |->
     [i \in DOMAIN PubPool |->
        VenueResolution(registry, basic_conferences, Strip(PubPool[i].venue)).domains]]

\* what the keyword classifier alone finds for each publication of the pool
KeywordOfPool == [i \in DOMAIN PubPool |-> _classify_by_keywords(PubPool[i])]

PoolIndexOf(pub) == CHOOSE i \in DOMAIN PubPool : PubPool[i] = pub

VenueDomains(pub) == VenueOfPool[journal_classifications][PoolIndexOf(pub)]

KeywordDomain(pub) == KeywordOfPool[PoolIndexOf(pub)]

KeywordFound(pub) == KeywordDomain(pub) # None /\ KeywordDomain(pub) # ""

\* the publication of the last loop iteration
LastPub == publications[last_step.pub]

\* the domains of area_papers that hold a paper for the publication at index i
PapersOf(i) ==
  {d \in DOMAIN area_papers :
     \E k \in DOMAIN area_papers[d][2] : area_papers[d][2][k].pub = i}

\* the publications of the list some method finds a domain for
Classified == {i \in DOMAIN publications :
                 VenueDomains(publications[i]) # <<>> \/ KeywordFound(publications[i])}

\* C12: for each publication, the keyword classifier's result is used only when
\* venue resolution (conference, direct journal or fuzzy journal match) produced no
\* domain; a publication for which both produce nothing is added to no domain and
\* does not enter the denominator of the percentages.
C12_KeywordOnlyAsFallback ==
  /\ (pc = "classify" /\ last_step.pub # 0) =>
       /\ VenueDomains(LastPub) # <<>> => last_step.domains = VenueDomains(LastPub)
       /\ (VenueDomains(LastPub) = <<>> /\ KeywordFound(LastPub)) =>
            last_step.domains = <<KeywordDomain(LastPub)>>
       /\ (VenueDomains(LastPub) = <<>> /\ ~KeywordFound(LastPub)) =>
            /\ last_step.domains = <<>>
            /\ area_scores = last_step.before
            /\ PapersOf(last_step.pub) = {}
  /\ (pc = "ready" /\ results # <<>>) =>
       results[Len(results)].total_classified = <<Cardinality(Classified), 1>>

\* a list of a publication the keywords classify and one nothing classifies has
\* been run: the second left the scores of the first alone, and one paper is counted
C12_Witness ==
  /\ pc = "ready"
  /\ results # <<>>
  /\ Len(publications) = 2
  /\ VenueDomains(publications[1]) = <<>> /\ KeywordFound(publications[1])
  /\ publications[2].venue # ""
  /\ VenueDomains(publications[2]) = <<>> /\ ~KeywordFound(publications[2])
  /\ results[Len(results)].total_classified = <<1, 1>>
  /\ results[Len(results)].keyword_classified = 1
-----------------------------------------------------------------------------
(* C13: the candidate _find_best_journal_match returns *)

\* the loop body has run for the one publication of the list
Resolved1 == pc = "classify" /\ last_step.pub = 1 /\ Len(publications) = 1

\* venue_lower of that publication
MatchedVenue == Lower(Strip(publications[1].venue))

\* the loop body has run and has called _find_best_journal_match: the venue is not
\* empty, has no conference match and is no key of the journal registry
Matched ==
  /\ Resolved1
  /\ MatchedVenue # ""
  /\ get_conference_classification(conferences, MatchedVenue) = <<>>
  /\ ~HasKey(journal_classifications, MatchedVenue)

\* the candidates the matcher made for it
MatchedCandidates ==
  {x[3] : x \in JournalCandidates(journal_classifications, MatchedVenue)}

\* what the matcher returns for it
MatchedResult == _find_best_journal_match(journal_classifications, MatchedVenue)

\* the length of the key a candidate names
KeyLength(c) == Len(c.name)

\* C13: _find_best_journal_match returns a candidate c only if no other candidate
\* has a higher score, no candidate with the same score has a longer matched-key
\* length (the length of the registry key that matched), and c's score is at least
\* 80; if the best candidate scores below 80, or there is none, it returns no match.
C13_BestByScoreThenKeyLength ==
  Matched =>
    /\ MatchedResult # <<>> =>
         \E c \in MatchedCandidates :
           /\ <<c.domains, c.name>> = MatchedResult
           /\ c.score >= QualityThreshold
           /\ \A o \in MatchedCandidates :
                o.score <= c.score /\ (o.score = c.score => KeyLength(o) <= KeyLength(c))
    /\ (\A c \in MatchedCandidates : c.score < QualityThreshold) => MatchedResult = <<>>

\* C13, as far as it holds: the same with the length the candidate carries, which
\* is the length of the key for a substring, acronym or word match, of the venue
\* for a reverse substring match and of the pattern for a special pattern
C13_BestByScoreThenLength ==
  Matched =>
    /\ MatchedResult # <<>> =>
         \E c \in MatchedCandidates :
           /\ <<c.domains, c.name>> = MatchedResult
           /\ c.score >= QualityThreshold
           /\ \A o \in MatchedCandidates :
                o.score <= c.score /\ (o.score = c.score => o.length <= c.length)
    /\ (\A c \in MatchedCandidates : c.score < QualityThreshold) => MatchedResult = <<>>

\* a venue that holds two keys of the registry, both candidates of score 100: the
\* longer key was returned and names the paper's matched journal
C13_Witness ==
  /\ Matched
  /\ \E c, o \in MatchedCandidates :
       /\ c.score = 100 /\ o.score = 100 /\ o.length < c.length
       /\ MatchedResult = <<c.domains, c.name>>
       /\ \E d \in DOMAIN area_papers : area_papers[d][2][1].matched_journal = c.name
-----------------------------------------------------------------------------
(* C14: publications without authors *)

\* the handled publications whose raw author string is empty
EmptyAuthored == {i \in Handled : publications[i].authors = ""}

\* the entries of a bucket's paper list that belong to other publications
PapersOfOthers(role) ==
  LET papers == Get(authorship_stats, role).papers
  IN {k \in DOMAIN papers : papers[k].pub \notin EmptyAuthored}

\* C14: for a publication whose raw author string is empty (parsed token list
\* empty) the role is unknown and _analyze_authorship performs no role increment:
\* no bucket's count, citation sum or paper list changes for that publication.
C14_NoIncrementForEmptyAuthors ==
  pc \in {"authorship", "authorship_done"} =>
    /\ \A i \in EmptyAuthored : ParsedAuthors(i) = <<>> /\ ResolvedRole(i) = "unknown"
    /\ \A r \in DOMAIN roles :
         LET bucket == Get(authorship_stats, roles[r]) IN
         /\ \A i \in EmptyAuthored : Memberships(roles[r], i) = 0
         /\ bucket.count = Cardinality(PapersOfOthers(roles[r]))
         /\ bucket.citations =
              Sum([k \in DOMAIN bucket.papers |->
                     IF k \in PapersOfOthers(roles[r]) THEN bucket.papers[k].citations ELSE 0])

\* C14, as far as it holds: such a publication has the role unknown, and is counted
\* once, in the unknown bucket and in no other
C14_EmptyAuthorsCountAsUnknown ==
  pc \in {"authorship", "authorship_done"} =>
    \A i \in EmptyAuthored :
      /\ ParsedAuthors(i) = <<>>
      /\ ResolvedRole(i) = "unknown"
      /\ \A r \in DOMAIN roles :
           Memberships(roles[r], i) = IF roles[r] = "unknown" THEN 1 ELSE 0

\* the loop body has just handled a publication without authors, and the unknown
\* bucket holds its citations
C14_Witness ==
  /\ pc = "authorship"
  /\ pub_i - 1 \in EmptyAuthored
  /\ author_list = <<>>
  /\ position = "unknown"
  /\ Get(authorship_stats, "unknown").count = 1
  /\ Get(authorship_stats, "unknown").citations = publications[pub_i - 1].citation_count
  /\ publications[pub_i - 1].citation_count > 0
-----------------------------------------------------------------------------
(* C15: malformed strings *)

\* name_parts of _analyze_authorship
NameParts == SplitWords(profile_name)

\* the search loop of _determine_author_position evaluates name_parts[0][0] (Method 3)
\* for visible[k]: no earlier author matched, and Methods 1 and 2 do not match this one
EvaluatesInitial(owner_name, name_parts, visible, k) ==
  LET author_lower == Strip(Lower(visible[k]))
      first == Lower(name_parts[1])
      last_name == Lower(name_parts[Len(name_parts)])
  IN /\ \A j \in 1..(k - 1) : ~OwnerMatch(owner_name, name_parts, visible[j])
     /\ ~Contains(author_lower, Lower(owner_name))
     /\ Len(name_parts) >= 2
     /\ ~Contains(author_lower, last_name \o ", " \o first)
     /\ ~Contains(author_lower, first \o " " \o last_name)

\* _determine_author_position raises: the IndexError of name_parts[0][0] for an empty
\* first part. Its other subscripts, name_parts[0] and name_parts[-1], are evaluated
\* under len(name_parts) >= 2.
PositionRaises(owner_name, name_parts, authors) ==
  LET is_truncated == \E i \in DOMAIN authors : authors[i] = Sentinel
      visible == Visible(authors)
  IN /\ authors # <<>>
     /\ ~(Len(visible) = 1 /\ ~is_truncated)
     /\ \E k \in DOMAIN visible :
          EvaluatesInitial(owner_name, name_parts, visible, k) /\ name_parts[1] = ""

classification_methods == {"conference", "journal", "keyword", "preprint"}

\* C15: for every publication whose title, author and venue fields are arbitrary
\* non-empty strings, and every owner display-name string, venue resolution, keyword
\* classification, author parsing and role resolution each return a value (at worst
\* no domain / role unknown) and never raise.
C15_MalformedNeverRaises ==
  /\ pc = "authorship" /\ pub_i <= Len(publications) =>
       LET parsed == _parse_authors(publications[pub_i].authors) IN
       /\ \A a \in DOMAIN parsed : parsed[a] # ""
       /\ ~PositionRaises(profile_name, NameParts, parsed)
  /\ pc = "authorship" /\ pub_i > 1 =>
       /\ author_list = _parse_authors(publications[pub_i - 1].authors)
       /\ position \in Range(roles)
  /\ pc = "classify" /\ pub_i > 1 =>
       LET pub == publications[pub_i - 1]
           venue == VenueResolution(journal_classifications, conferences, Strip(pub.venue))
           keyword == _classify_by_keywords(pub)
       IN /\ venue.domains = <<>> <=> venue.method = None
          /\ venue.domains # <<>> => venue.method \in {"conference", "journal"}
          /\ \A d \in DOMAIN venue.domains : venue.domains[d] \notin {"", None}
          /\ keyword # ""
          /\ last_step.domains =
               IF venue.domains # <<>> THEN venue.domains
               ELSE IF keyword # None THEN <<keyword>> ELSE <<>>
          /\ last_step.method \in
               IF last_step.domains = <<>> THEN {None} ELSE classification_methods

\* the search loop has gone through Methods 1 to 4 with an owner name of two parts,
\* on an author list that is no list of names, and has found no owner
C15_Witness ==
  /\ pc = "authorship"
  /\ pub_i = 2
  /\ publications[1].authors = "a;b,"
  /\ Len(NameParts) = 2
  /\ \A k \in DOMAIN author_list : EvaluatesInitial(profile_name, NameParts, author_list, k)
  /\ Len(author_list) = 2
  /\ position = "unknown"
-----------------------------------------------------------------------------
(* C16: the registries after construction *)

\* the positions of __init__
construction_positions == {"load_scimago", "load_loop", "except", "critical"}

\* an analysis method can run, or runs
AnalysisPossible == pc \notin construction_positions

\* C16: registry construction finishes inside ProfileAnalyzer.__init__ before any
\* analysis method can run, and no analysis operation (_journal_based_classification,
\* _find_best_journal_match, _classify_by_keywords, _determine_venue_type,
\* _analyze_authorship) adds, removes or changes an entry of the journal registry or
\* the conference registry, nor mutates a domain list stored in them.
C16_RegistryFrozenAfterInit ==
  /\ [](AnalysisPossible =>
          journal_classifications \in RunRegistries /\ conferences = basic_conferences)
  /\ [][AnalysisPossible => UNCHANGED <<journal_classifications, conferences>>]_vars

\* a finished classification that took the domains of a publication from the journal
\* registry loaded from the dataset
C16_Witness ==
  /\ pc = "ready"
  /\ dataset.state = "ok"
  /\ results # <<>>
  /\ \E i \in DOMAIN publications :
       /\ HasKey(journal_classifications, Lower(Strip(publications[i].venue)))
       /\ \E d \in DOMAIN area_papers : \E k \in DOMAIN area_papers[d][2] :
            /\ area_papers[d][2][k].pub = i
            /\ area_papers[d][2][k].domains =
                 Get(journal_classifications, Lower(Strip(publications[i].venue)))
-----------------------------------------------------------------------------
(* C17: the truncation sentinel *)

\* the sentinel would match the owner name, were it searched
SentinelMatchesOwner == OwnerMatch(profile_name, SplitWords(profile_name), Sentinel)

\* what the role rules, which count and search the visible authors, give
RoleOfVisible ==
  LET visible == Visible(author_list) IN
  IF author_list = <<>> THEN "unknown"
  ELSE IF Len(visible) = 1 /\ ~LastTruncated THEN "single_author"
  ELSE IF LastIndex = NotFound THEN "unknown"
  ELSE PositionRole(LastIndex, Len(visible), LastTruncated)

\* the paper of the last iteration is in the last_author bucket
LastCredited == Memberships("last_author", pub_i - 1) = 1

\* C17: the truncation sentinel appended by _parse_authors is never treated as a real
\* author: it is never matched as the owner, never assigned a position, never counted
\* when the number of authors or tokens of a paper is taken (role rules, two-author
\* duplication rule), and so takes no part in the role or in the buckets of a paper.
C17_SentinelNeverCounted ==
  PositionDetermined =>
    /\ position = RoleOfVisible
    /\ LastCredited <=>
         \/ position \in {"single_author", "last_author"}
         \/ position = "second_author" /\ Len(Visible(author_list)) = 2

\* C17, as far as it holds: the sentinel is never matched as the owner, never assigned
\* a position and not counted by the role rules; the two-author duplication rule
\* counts it, so that no paper of a truncated list is duplicated into last_author
C17_SentinelCountedByDuplicationOnly ==
  PositionDetermined =>
    /\ position = RoleOfVisible
    /\ LastCredited <=>
         \/ position \in {"single_author", "last_author"}
         \/ position = "second_author" /\ Len(author_list) = 2
    /\ LastTruncated /\ position = "second_author" => ~LastCredited

\* a truncated list of two visible authors none of whom is the owner, for an owner
\* name the sentinel contains
C17_Witness ==
  /\ PositionDetermined
  /\ LastTruncated
  /\ Len(Visible(author_list)) = 2
  /\ SentinelMatchesOwner
  /\ position = "unknown"
-----------------------------------------------------------------------------
(* C18: the owner at the visible end of a truncated list *)

\* the list of the last call is truncated and the owner is its last visible author
OwnerAtTruncatedEnd == OwnerFound /\ LastTruncated /\ LastIndex = LastVisible

\* C18: for every publication whose author list is truncated and whose owner is found
\* at the last visible index, the role is resolved as middle_author, and the paper is
\* never recorded in the last_author bucket, neither as its primary role nor through
\* the duplication rule.
C18_TruncatedEndIsMiddle ==
  OwnerAtTruncatedEnd => position = "middle_author" /\ ~LastCredited

\* C18, amended: for every publication whose author list is truncated and whose owner
\* is found at the last visible index, the role is first_author when that index is 0,
\* second_author when it is 1 and middle_author when it is 2 or more, and the paper is
\* never recorded in the last_author bucket, neither as its primary role nor through
\* the duplication rule.
C18_TruncatedEndNeverLast ==
  OwnerAtTruncatedEnd =>
    /\ position = IF LastIndex = 0 THEN "first_author"
                  ELSE IF LastIndex = 1 THEN "second_author"
                  ELSE "middle_author"
    /\ position # "last_author"
    /\ ~LastCredited

\* the owner is the second and last visible author of a truncated list: second_author,
\* and not in the last_author bucket
C18_Witness ==
  /\ OwnerAtTruncatedEnd
  /\ LastIndex = 1
  /\ position = "second_author"
  /\ Get(authorship_stats, "second_author").count = 1
  /\ Get(authorship_stats, "last_author").count = 0
-----------------------------------------------------------------------------
(* C19: the conference the registry reports *)

\* what get_conference_classification returns for the venue of the publication
ReportedConference == get_conference_classification(conferences, MatchedVenue)

\* the conferences the normalized venue is equal to a key or an alias of
ExactConferences ==
  LET venue_clean == ConferenceClean(MatchedVenue) IN
  {conferences[c][2] : c \in {k \in DOMAIN conferences :
                                \/ conferences[k][1] = venue_clean
                                \/ venue_clean \in Range(conferences[k][2].aliases)}}

\* the loop body has asked the conference registry
ConferenceAsked == Resolved1 /\ MatchedVenue # ""

\* C19: get_conference_classification reports a conference only when the venue string,
\* after normalization (boilerplate tokens and 4-digit years stripped, whitespace
\* collapsed), is equal to a conference key or to one of that conference's aliases;
\* for every other venue it returns no match.
C19_ConferenceOnlyOnExactMatch ==
  ConferenceAsked =>
    /\ ReportedConference # <<>> => ReportedConference[1] \in ExactConferences
    /\ ExactConferences = {} => ReportedConference = <<>> /\ last_step.method # "conference"

\* C19, as far as it holds: a venue whose normalized form is a conference key is
\* reported as that conference and classified by it; any conference that is reported
\* has the normalized venue as its key or passes the alias tests, which accept an
\* alias that contains the venue or is contained in it
C19_ExactKeyWins ==
  ConferenceAsked =>
    /\ HasKey(conferences, ConferenceClean(MatchedVenue)) =>
         /\ ReportedConference = <<Get(conferences, ConferenceClean(MatchedVenue))>>
         /\ last_step.domains = <<ReportedConference[1].domain>>
         /\ last_step.method = "conference"
    /\ ReportedConference # <<>> =>
         \/ HasKey(conferences, ConferenceClean(MatchedVenue))
         \/ AliasMatch(ReportedConference[1], MatchedVenue)

\* a venue with a year is normalized to the key of a conference and classified by it
C19_Witness ==
  /\ ConferenceAsked
  /\ MatchedVenue = "cvpr 2022"
  /\ ConferenceClean(MatchedVenue) = "cvpr"
  /\ ReportedConference = <<Get(conferences, "cvpr")>>
  /\ last_step.method = "conference"
  /\ last_step.domains = <<"Computer Science and AI">>
-----------------------------------------------------------------------------
(* C20: the word-overlap step *)

\* the candidates the word-overlap step made for the venue
WordMatched ==
  {x[3] : x \in {y \in JournalCandidates(journal_classifications, MatchedVenue) : y[1] = 3}}

\* the words of the cleaned venue the step looks at
VenueWords == LongWords(JournalClean(MatchedVenue))

\* the significant words of a string: longer than 2 characters and no stop-word
SignificantWords(s) == LongWords(s) \ generic_words

\* C20: the word-overlap step of _find_best_journal_match produces a candidate for a
\* registry key only if the key has at least 3 significant words (length > 2 and not
\* a stop-word), the overlap ratio (shared significant words / key significant words)
\* is >= 0.8 with >= 3 shared words or >= 0.9 with >= 2 shared words, and at least 2
\* shared words are non-stop-words; the candidate's score is 60 + 30 x ratio.
C20_WordOverlapOnSignificantWords ==
  Matched =>
    \A c \in WordMatched :
      LET key_words == SignificantWords(c.name)
          shared == (VenueWords \ generic_words) \cap key_words
          nk == Cardinality(key_words)
          ns == Cardinality(shared)
      IN /\ nk >= 3
         /\ \/ 10 * ns >= 8 * nk /\ ns >= 3
            \/ 10 * ns >= 9 * nk /\ ns >= 2
         /\ Cardinality((VenueWords \cap LongWords(c.name)) \ generic_words) >= 2
         /\ (c.score - 60) * nk = 30 * ns

\* C20, as the code has it: the step produces a candidate for a registry key only if
\* the key has at least 15 characters and at least 3 words longer than 2 characters,
\* stop-words among them, at least 3 of these words are shared with the venue and make
\* up 0.8 of them or more, and at least 2 shared words are no stop-words; the score is
\* 60 + 30 x ratio rounded down
C20_WordOverlapOnLongWords ==
  Matched =>
    \A c \in WordMatched :
      LET key_words == LongWords(c.name)
          shared == VenueWords \cap key_words
          nk == Cardinality(key_words)
          ns == Cardinality(shared)
      IN /\ Len(c.name) >= 15
         /\ nk >= 3
         /\ 10 * ns >= 8 * nk /\ ns >= 3
         /\ Cardinality(shared \ generic_words) >= 2
         /\ c.score <= 60 + 30 /\ 30 * ns - nk < (c.score - 60) * nk /\ (c.score - 60) * nk <= 30 * ns
         /\ c.type = "word_match"

\* a candidate for a key of 7 words of which the venue shares 6: the score 85 is
\* 60 + 30 x 6/7 rounded down
C20_Witness ==
  /\ Matched
  /\ \E c \in WordMatched :
       /\ Cardinality(LongWords(c.name)) = 7
       /\ Cardinality(VenueWords \cap LongWords(c.name)) = 6
       /\ c.score = 85

-----------------------------------------------------------------------------
(* The owner search of _determine_author_position *)

\* the visible authors of the last call
LastAuthors == Visible(author_list)

\* the search loop of the last call was reached: the list is not empty and the
\* single-author rule did not return
SearchReached ==
  /\ PositionDetermined
  /\ author_list # <<>>
  /\ ~(Len(LastAuthors) = 1 /\ ~LastTruncated)

\* the tokens of the last call that match at least one hypothesis
MatchingTokens ==
  {i \in DOMAIN LastAuthors :
     OwnerMatch(profile_name, SplitWords(profile_name), LastAuthors[i])}

\* the tokens of the last call that hold the full name, the first hypothesis
FullNameTokens ==
  {i \in DOMAIN LastAuthors : Contains(Strip(Lower(LastAuthors[i])), profile_name)}

\* the role of the smallest matching token, unknown when there is none
RoleOfFirstMatch ==
  IF MatchingTokens = {} THEN "unknown"
  ELSE PositionRole(Min(MatchingTokens) - 1, Len(LastAuthors), LastTruncated)

\* C21 as stated: after every call of _determine_author_position on a non-empty list
\* the role is that of the smallest token index at which a hypothesis matches, and
\* unknown when no token matches any hypothesis.
C21_FirstMatchingTokenAlways ==
  (PositionDetermined /\ author_list # <<>>) => position = RoleOfFirstMatch

\* C21: whenever the search loop of _determine_author_position is reached (the list is
\* not empty and is not a single untruncated token), the role is that of the smallest
\* token index at which at least one hypothesis matches, also when a later token
\* matches an earlier hypothesis, and it is unknown when no token matches; a single
\* untruncated token is single_author whether it matches or not.
C21_FirstMatchingTokenWins ==
  /\ SearchReached => position = RoleOfFirstMatch
  /\ (PositionDetermined /\ Len(LastAuthors) = 1 /\ ~LastTruncated) => position = "single_author"

\* the first token matches by the surname only, the second holds the full name, and
\* the owner is resolved as first author
C21_Witness ==
  /\ SearchReached
  /\ 1 \in MatchingTokens /\ 1 \notin FullNameTokens
  /\ 2 \in FullNameTokens
  /\ position = "first_author"

-----------------------------------------------------------------------------
(* The surname-only hypothesis of the owner search *)

\* last_name of the search loop
Surname == Lower(NameParts[Len(NameParts)])

\* Methods 1 to 3 for one author: the full name, the reconstructions, the initial forms
NamedInFull(author) ==
  LET author_lower == Strip(Lower(author))
      first == Lower(NameParts[1])
      first_initial == CharAt(first, 1)
  IN \/ Contains(author_lower, profile_name)
     \/ /\ Len(NameParts) >= 2
        /\ \/ Contains(author_lower, Surname \o ", " \o first)
           \/ Contains(author_lower, first \o " " \o Surname)
           \/ Contains(author_lower, first_initial \o " " \o Surname)
           \/ Contains(author_lower, first_initial \o ". " \o Surname)
           \/ Contains(author_lower, Surname \o ", " \o first_initial)
           \/ Contains(author_lower, Surname \o ", " \o first_initial \o ".")

\* the surname is a whole word of the author, has 3 characters or more and is not a
\* connector word
SurnameAsStated(author) ==
  /\ WordSearch(Strip(Lower(author)), Surname)
  /\ Len(Surname) >= 3
  /\ \A c \in DOMAIN common_words : Surname # common_words[c]

\* the same, with no connector word anywhere inside the surname
SurnameAsCoded(author) ==
  /\ WordSearch(Strip(Lower(author)), Surname)
  /\ Len(Surname) >= 3
  /\ \A c \in DOMAIN common_words : ~Contains(Surname, common_words[c])

\* the search of the last call was left to the surname-only hypothesis: the owner has
\* two name parts or more and no author matches another hypothesis
SurnameDecides ==
  /\ SearchReached
  /\ Len(NameParts) >= 2
  /\ \A i \in DOMAIN LastAuthors : ~NamedInFull(LastAuthors[i])

\* C22 as stated: when only the surname-only hypothesis can match, the owner is found
\* exactly when some token holds the surname as a whole word, the surname has at least
\* 3 characters and is not itself one of the/and/for/with/from/van/de/la/le; a surname
\* that contains one of those words as a substring is accepted.
C22_SurnameRejectedIfConnector ==
  SurnameDecides =>
    (position # "unknown" <=> \E i \in DOMAIN LastAuthors : SurnameAsStated(LastAuthors[i]))

\* what the search does: when only the surname-only hypothesis can match, the owner is
\* found exactly when some token holds the surname as a whole word, the surname has at
\* least 3 characters and none of the connector words occurs anywhere inside it.
C22_SurnameRejectedIfConnectorInside ==
  SurnameDecides =>
    (position # "unknown" <=> \E i \in DOMAIN LastAuthors : SurnameAsCoded(LastAuthors[i]))

\* a surname that holds "and" is a whole word of an author, and the owner is not found
C22_Witness ==
  /\ SurnameDecides
  /\ Contains(Surname, "and") /\ Surname # "and"
  /\ \E i \in DOMAIN LastAuthors : SurnameAsStated(LastAuthors[i])
  /\ position = "unknown"

-----------------------------------------------------------------------------
(* primary_area of _journal_based_classification *)

\* a call has returned and no other has started: area_papers is that of the call
Returned == pc = "ready" /\ results # <<>>

LastResult == results[Len(results)]

\* area_percentages[domain] of the last result
PercentageOf(domain) == Get(LastResult.area_percentages, domain)

\* when the loop first gave domain a weight: the first publication that holds it and
\* its first place in the paper_domains of that publication
FirstWeighted(domain) ==
  LET papers == Get(area_papers, domain)
      first == papers[CHOOSE k \in DOMAIN papers :
                        \A j \in DOMAIN papers : papers[k].pub <= papers[j].pub]
      place == Min({j \in DOMAIN first.domains : first.domains[j] = domain})
  IN <<first.pub, place>>

Before(a, b) == a[1] < b[1] \/ (a[1] = b[1] /\ a[2] < b[2])

\* C23: primary_area of every result is a domain whose percentage is greater than or
\* equal to that of every other domain; among the domains that share the highest
\* percentage it is the one the loop gave a weight first; and it is None exactly when
\* no publication of the call was classified.
C23_PrimaryIsFirstArgMax ==
  Returned =>
    LET primary == LastResult.primary_area IN
    IF area_papers = <<>> THEN primary = None
    ELSE /\ primary \in Keys(area_papers)
         /\ \A d \in Keys(area_papers) :
              /\ PercentageOf(d) <= PercentageOf(primary)
              /\ (d # primary /\ PercentageOf(d) = PercentageOf(primary))
                   => Before(FirstWeighted(primary), FirstWeighted(d))

\* two publications of different venues tie at the highest percentage, and the primary
\* area is a domain of the first one
C23_Witness ==
  /\ Returned
  /\ Len(publications) = 2
  /\ \E d \in Keys(area_papers) :
       /\ d # LastResult.primary_area
       /\ PercentageOf(d) = PercentageOf(LastResult.primary_area)
       /\ FirstWeighted(d)[1] = 2
  /\ FirstWeighted(LastResult.primary_area)[1] = 1

-----------------------------------------------------------------------------
(* invalidate_profile_cache *)

\* invalidate_profile_cache was the last call to return
Invalidated == cache_call.op = "invalidate_profile_cache"

\* some get function still returns data for the profile
StillCached(profile_id) ==
  \/ get_cached_publications(redis_store, profile_id) # None
  \/ get_cached_profile(redis_store, profile_id) # None
  \/ \E t \in AnalysisTypes : get_cached_analysis(redis_store, profile_id, t) # None

\* C24 as stated: once invalidate_profile_cache(p) has returned on a connected client,
\* get_cached_publications(p), get_cached_profile(p) and get_cached_analysis(p, t) for
\* every analysis type t return None, until something is cached for p again.
C24_InvalidatedEntriesGone == Invalidated => ~StillCached(cache_call.profile_id)

\* what the call does: invalidate_profile_cache deletes no key that cache_publications,
\* cache_profile or cache_analysis stored, for any profile, and returns 0.
C24_InvalidateDeletesNothing ==
  [][InvalidateProfileCache => (redis_store' = redis_store /\ cache_call'.returned = 0)]_vars

\* invalidate_profile_cache(p) has returned 0 and the three kinds of entry of p are
\* all still served
C24_Witness ==
  /\ Invalidated
  /\ cache_call.returned = 0
  /\ get_cached_publications(redis_store, cache_call.profile_id) # None
  /\ get_cached_profile(redis_store, cache_call.profile_id) # None
  /\ \A t \in AnalysisTypes : get_cached_analysis(redis_store, cache_call.profile_id, t) # None

-----------------------------------------------------------------------------
(* interdisciplinary_score of _journal_based_classification *)

\* the number of distinct domain keys of a result
DomainsObserved(result) == Cardinality(Keys(result.area_papers))

\* C25 as stated: in every result the number of distinct domain labels observed is at
\* most 9 and the interdisciplinary score lies between 0 and 1, on both load paths.
C25_ScoreAtMostOne ==
  \A k \in DOMAIN results :
    /\ DomainsObserved(results[k]) <= MainDomains
    /\ results[k].interdisciplinary_score[1] <= results[k].interdisciplinary_score[2]

\* what is returned: the score is the number of distinct keys of area_papers over 9,
\* and 0 when nothing was classified; nothing bounds the number of keys by 9.
C25_ScoreIsKeysOverNine ==
  \A k \in DOMAIN results :
    results[k].interdisciplinary_score =
      IF results[k].area_papers = <<>> THEN <<0, 1>>
      ELSE <<DomainsObserved(results[k]), MainDomains>>

\* one publication, matched to a journal of the built-in table, gives a result with
\* more than 9 domain keys and a score above 1
C25_Witness ==
  /\ Returned
  /\ dataset.state = "absent"
  /\ Len(publications) = 1
  /\ DomainsObserved(LastResult) > MainDomains
  /\ LastResult.interdisciplinary_score[1] > LastResult.interdisciplinary_score[2]

-----------------------------------------------------------------------------
(* Labels of _classify_by_keywords *)

\* the labels that key the keyword table
KeywordLabels == {keyword_domains[i][1] : i \in DOMAIN keyword_domains}

\* the labels the venue overrides return
OverrideLabels == {"Mathematics", "Statistics & Probability"}

\* the paper_data entries filed under any key of area_papers
PapersFiled == UNION {{area_papers[d][2][k] : k \in DOMAIN area_papers[d][2]} : d \in DOMAIN area_papers}

KeywordPapers == {p \in PapersFiled : p.classification_method = "keyword"}

\* the statistics domain as the registries spell it and as the venue override spells it
StatisticsOfRegistry == "Statistics and Probability"

\* C26 as stated: every label _classify_by_keywords returns is a key of the keyword
\* table, spelled as the registries spell it, so a keyword-classified paper and a
\* venue-classified paper of one domain are filed under one key.
C26_KeywordLabelsAreTableKeys ==
  /\ \A p \in KeywordPapers : p.domains[1] \in KeywordLabels
  /\ ~(PenaltyLabel \in Keys(area_papers) /\ StatisticsOfRegistry \in Keys(area_papers)
       /\ \E p \in KeywordPapers : p.domains = <<PenaltyLabel>>)

\* what is returned: a key of the keyword table, or one of the two labels of the venue
\* overrides, and the override labels are not keys of the table
C26_KeywordLabelsOrOverride ==
  /\ OverrideLabels \cap KeywordLabels = {}
  /\ \A p \in KeywordPapers :
       /\ Len(p.domains) = 1
       /\ p.domains[1] \in KeywordLabels \cup OverrideLabels
       /\ p.domains[1] \in OverrideLabels
            <=> LET venue == Lower(publications[p.pub].venue) IN
                venue # "" /\ (AnyIn(math_venue_terms, venue) \/ AnyIn(stat_venue_terms, venue))

\* one statistics paper classified by its venue and one by the venue override of the
\* keyword classifier end under two keys
C26_Witness ==
  /\ Returned
  /\ \E p \in KeywordPapers : p.domains = <<PenaltyLabel>>
  /\ \E p \in PapersFiled : p.classification_method = "journal" /\ StatisticsOfRegistry \in Range(p.domains)
  /\ {PenaltyLabel, StatisticsOfRegistry} \subseteq Keys(area_papers)

-----------------------------------------------------------------------------
(* Registry values after construction *)

\* a one-character string: what iterating a str value yields in place of a label
IsFragment(label) == Len(label) <= 1

\* a non-empty list of whole labels
IsLabelList(value) == value # <<>> /\ \A i \in DOMAIN value : ~IsFragment(value[i])

\* the domain keys accumulated for papers matched to a journal of the registry
JournalKeys == {area_papers[d][1] : d \in {e \in DOMAIN area_papers :
                  \E k \in DOMAIN area_papers[e][2] : area_papers[e][2][k].classification_method = "journal"}}

\* C27 as stated: after construction on either load path every registry value is a
\* non-empty list of whole domain labels, so every key accumulated for a matched venue
\* is a whole label.
C27_RegistryValuesAreLabelLists ==
  ConstructionDone =>
    /\ \A i \in DOMAIN journal_classifications : IsLabelList(journal_classifications[i][2])
    /\ \A key \in JournalKeys : ~IsFragment(key)

\* what holds: the statement on the bulk path; on the fallback path the entries that
\* the critical journals did not overwrite are str values
C27_LabelListsOnBulkPath ==
  ConstructionDone =>
    IF dataset.state = "ok"
    THEN /\ \A i \in DOMAIN journal_classifications : IsLabelList(journal_classifications[i][2])
         /\ \A key \in JournalKeys : ~IsFragment(key)
    ELSE \A i \in DOMAIN journal_classifications :
           LET name == journal_classifications[i][1]
               value == journal_classifications[i][2]
           IN IF HasKey(critical_journals, name) THEN IsLabelList(value)
              ELSE \A j \in DOMAIN value : IsFragment(value[j])

\* a bulk-loaded registry whose dataset entry matched a publication
C27_WitnessBulk ==
  /\ Returned
  /\ dataset.state = "ok"
  /\ dataset.journals # <<>>
  /\ \E key \in JournalKeys : ~HasKey(critical_journals, Get(area_papers, key)[1].matched_journal)

-----------------------------------------------------------------------------
(* The truncation mark of _parse_authors *)

\* the raw author string of the last call of _parse_authors
RawAuthors == publications[pub_i - 1].authors

\* a substitution of _clean_truncation_markers changed the raw string
MarkerRemoved(authors_string) == CutAll(authors_string, 1) # authors_string

\* the list of the last call ends with the sentinel
MarkedTruncated == author_list # <<>> /\ author_list[Len(author_list)] = Sentinel

\* C28 as stated: _parse_authors appends the sentinel exactly when
\* _clean_truncation_markers removed a truncation marker from the raw string; a string
\* from which nothing is stripped is never marked truncated.
C28_MarkedIffMarkerRemoved ==
  PositionDetermined => (MarkedTruncated <=> MarkerRemoved(RawAuthors))

\* what holds: the sentinel is appended exactly when an indicator is a substring of
\* the lowered raw string (or "+ N more" is found), and whenever a marker was removed
C28_MarkedIffIndicatorInside ==
  PositionDetermined =>
    /\ MarkedTruncated <=> _is_author_list_truncated(RawAuthors)
    /\ MarkerRemoved(RawAuthors) => MarkedTruncated

\* a raw string that ends with a marker: the marker is removed and the list is marked
C28_Witness ==
  /\ PositionDetermined
  /\ MarkerRemoved(RawAuthors)
  /\ MarkedTruncated
  /\ Len(author_list) >= 2

\* a raw string with an indicator inside a name: nothing is removed, the list is marked
C28_WitnessInsideName ==
  /\ PositionDetermined
  /\ ~MarkerRemoved(RawAuthors)
  /\ MarkedTruncated

-----------------------------------------------------------------------------
(* The alarm of _classify_research_areas *)

\* _classify_research_areas has returned a result
AreasReturned == InJournalBased /\ pc = "ready" /\ results # <<>>

\* C29 as stated: on every path by which _classify_research_areas returns with
\* enrichment enabled the alarm it armed has been cancelled before it returns, so no
\* timeout fires after the call has ended.
C29_AlarmCancelledOnReturn ==
  /\ AreasReturned => alarm = "off"
  /\ areas_call # "late_timeout"

\* what holds: the call returns with the alarm cancelled after a timeout and with
\* enrichment disabled; after any other exception the alarm is still armed unless it
\* has gone off before
C29_AlarmCancelledOnTimeoutOnly ==
  /\ areas_call \in {"plain", "after_timeout"} => alarm = "off"
  /\ (AreasReturned /\ alarm = "armed") => areas_call = "after_error"
  /\ areas_call \in {"raised", "late_timeout"} => alarm = "off"

\* the call has returned after a timeout of the enrichment, the alarm cancelled
C29_Witness ==
  /\ AreasReturned
  /\ areas_call = "after_timeout"
  /\ alarm = "off"

\* the call has returned after an AttributeError of the enrichment, the alarm armed
C29_WitnessArmed ==
  /\ AreasReturned
  /\ areas_call = "after_error"
  /\ alarm = "armed"

-----------------------------------------------------------------------------
(* classification_stats of _journal_based_classification *)

\* the number of entries that the papers of one method have in the lists of
\* area_papers: one for every item of the paper_domains of each of them
DomainEntries(method) ==
  LET filed == SeqOfSet({p \in PapersFiled : p.classification_method = method})
  IN Sum([k \in DOMAIN filed |-> Len(filed[k].domains)])

\* n <= x for a natural number n and a fraction x
AtMost(n, x) == n * x[2] <= x[1]

\* journal_coverage is held in tenths of a percent
FullCoverage == 1000

\* C30 as stated: journal_classified + keyword_classified never exceeds
\* total_classified and journal_coverage never exceeds 100, also when publications
\* are assigned several domains.
C30_StatsWithinTotal ==
  \A k \in DOMAIN results :
    /\ AtMost(results[k].journal_classified + results[k].keyword_classified, results[k].total_classified)
    /\ results[k].journal_coverage <= FullCoverage

\* what holds: each count is the number of list entries of the papers of its method,
\* so the statement holds when every classified paper has one domain
C30_StatsCountDomainEntries ==
  Returned =>
    /\ LastResult.journal_classified = DomainEntries("journal")
    /\ LastResult.keyword_classified = DomainEntries("keyword")
    /\ (\A p \in PapersFiled : Len(p.domains) = 1) =>
         /\ AtMost(LastResult.journal_classified + LastResult.keyword_classified, LastResult.total_classified)
         /\ LastResult.journal_coverage <= FullCoverage

\* a bulk-loaded registry gives one publication several whole labels: the counts
\* exceed the total and the coverage exceeds 100
C30_Witness ==
  /\ Returned
  /\ dataset.state = "ok"
  /\ \E p \in PapersFiled : p.classification_method = "journal" /\ Len(p.domains) >= 2
  /\ ~AtMost(LastResult.journal_classified, LastResult.total_classified)
  /\ LastResult.journal_coverage > FullCoverage
====
